---- MODULE Spec2Model ----
(***************************************************************************)
(* mkbootimg file system image builders (ext2, FAT16/32, LeanFS, Minix3,   *)
(* cpio, ustar, James Molloy initrd) and the driver that calls them.       *)
(*                                                                         *)
(* The image buffer fs_base is modelled sparsely: only the structures the  *)
(* code writes are kept (superblock fields, bitmaps as sets of set bits,   *)
(* inodes, directory records, FAT entries, content extents); a byte the    *)
(* code never wrote reads as zero, as after the memset of open.            *)
(***************************************************************************)
EXTENDS Integers, Sequences, FiniteSets, TLC

VARIABLES fmt, phase, err, nsec, fs_len, budget, added, call, ext, fat, len, mnx, arc, fsz, ech, out,
          gpt, vfs

vars == <<fmt, phase, err, nsec, fs_len, budget, added, call, ext, fat, len, mnx, arc, fsz, ech, out,
          gpt, vfs>>

(***************************************************************************)
(* Bounds of the model.                                                    *)
(***************************************************************************)
\* number of add calls explored in one build of a single builder
MaxAdds == 3
\* number of add calls explored when all builders are explored together
MaxAddsAll == 2
\* length of the long file name offered to the FAT builder (UTF-16 units)
LongLen == 170

(***************************************************************************)
(* Generic helpers.                                                        *)
(***************************************************************************)
Min(a, b) == IF a < b THEN a ELSE b
Max(a, b) == IF a > b THEN a ELSE b
\* C integer division of non-negative numbers, rounded up to a multiple.
CeilDiv(a, b) == (a + b - 1) \div b
\* (x + 3) & ~3
Align4(x) == ((x + 3) \div 4) * 4
Range(s) == {s[i] : i \in DOMAIN s}
\* f with key k set to v (k may be new)
Put(f, k, v) == (k :> v) @@ f
Get(f, k, dflt) == IF k \in DOMAIN f THEN f[k] ELSE dflt
EmptyFn == [x \in {} |-> 0]
\* With([x \in {v} |-> body]) is body with the local variable x holding v.
With(f) == f[CHOOSE x \in DOMAIN f : TRUE]
NULLP == -1

\* File names are sequences of character codes.
Dot == <<46>>
DotDot == <<46, 46>>
NameA == <<97>>
NameB == <<98>>
NameD == <<100>>
LostFound == <<108, 111, 115, 116, 43, 102, 111, 117, 110, 100>>
LongName == [i \in 1..LongLen |-> 120]
\* a name of 64 characters
Name64 == [i \in 1..64 |-> 121]

\* struct stat st_mode file types (S_ISREG, S_ISDIR, S_ISLNK, S_ISCHR, S_ISBLK);
\* "fifo" stands for every other type.
Types == {"reg", "dir", "lnk", "chr", "blk", "fifo"}

\* The paths added so far (ghost): the tree the directory walk has delivered.
AddedPaths == {added[i].path : i \in DOMAIN added}
AddedDirs == {added[i].path : i \in {j \in DOMAIN added : added[j].type = "dir"}}
\* What the directory walk can deliver next: a new name in the root or in a
\* directory delivered earlier.
NextPaths(names) ==
    {p \o <<n>> : p \in {<<>>} \cup AddedDirs, n \in names} \ AddedPaths


(***************************************************************************)
(* ext2 builder (src/mkbootimg/ext2.c).                                    *)
(***************************************************************************)
SECSIZE == 4096
\* blocks per group: SECSIZE<<3
ExtBpg == SECSIZE * 8
\* sizeof(ext_inode_t)
ExtInodeSize == 128
\* number of group descriptors that fit in s_bg[]
ExtBgSlots == SECSIZE \div 32
\* number of direct block pointers in i_block[]
ExtNDirect == 12
\* first non-reserved inode (s_first_ino), also the lost+found inode
ExtFirstIno == 11

ExtIdle == [err |-> "idle"]
ExtZeroBg ==
    [bg_block_bitmap |-> 0, bg_inode_bitmap |-> 0, bg_inode_table |-> 0,
     bg_free_blocks_count |-> 0, bg_free_inodes_count |-> 0, bg_used_dirs_count |-> 0]
ExtZeroDirent == [inode |-> 0, rec_len |-> 0, name_len |-> 0, type |-> 0, name |-> <<>>]
ExtZeroInode ==
    [i_mode |-> "none", i_size |-> 0, i_links_count |-> 0, i_block |-> [i \in 1..15 |-> 0]]
\* EXT2_FT_* directory entry types
ExtFt(t) ==
    CASE t = "dir" -> 2 [] t = "lnk" -> 7 [] t = "chr" -> 3 [] t = "blk" -> 4 [] OTHER -> 1

ExtBg(e, g) == Get(e.bg, g, ExtZeroBg)
ExtBits(e, b) == Get(e.bits, b, {})
ExtInode(e, ino) == Get(e.inodes, ino, ExtZeroInode)
\* The indirect block b read as an array of block numbers: the entries written
\* so far (they are written in order, the rest of the block is zero).
ExtPtrs(e, b) == IF b \in DOMAIN e.blk /\ e.blk[b].k = "ind" THEN e.blk[b].ptrs ELSE <<>>
ExtFail(e, what) == [e EXCEPT !.err = what]

\* Faulty variant of ext_alloc_blk: the cursor is not advanced.
ext_alloc_blk_stuck(e) ==
    IF e.err # "ok" THEN e
    ELSE [e EXCEPT !.ret = e.nextblk, !.allocs = Append(e.allocs, e.nextblk)]

\* int ext_alloc_blk(): the block number is left in ret.
ext_alloc_blk(e) ==
    IF e.err # "ok" THEN e
    ELSE LET g == e.nextblk \div ExtBpg
             o == e.nextblk % ExtBpg
             bm == ExtBg(e, g).bg_block_bitmap
             nb == e.nextblk + 1
         IN  IF e.nextblk + 1 >= e.s_blocks_count \/ e.s_free_blocks_count < 1
             THEN ExtFail(e, "toobig")
             ELSE [e EXCEPT
                     !.bits = Put(e.bits, bm, ExtBits(e, bm) \cup {o}),
                     !.bg = Put(e.bg, g, [ExtBg(e, g) EXCEPT !.bg_free_blocks_count =
                                (ExtBg(e, g).bg_free_blocks_count - 1) % 65536]),
                     !.s_free_blocks_count = e.s_free_blocks_count - 1,
                     !.nextblk = IF nb % ExtBpg = 0 THEN nb + e.blkgap ELSE nb,
                     !.ret = e.nextblk,
                     !.allocs = Append(e.allocs, e.nextblk)]

\* int ext_alloc_inode(mode, size, ...): the inode number is left in ret.
ext_alloc_inode(e, type, size) ==
    IF e.err # "ok" THEN e
    ELSE LET g == e.nextinode \div e.s_inodes_per_group
             o == e.nextinode % e.s_inodes_per_group
             bm == ExtBg(e, g).bg_inode_bitmap
             ino == e.nextinode + 1
         IN  IF e.nextinode + 1 >= e.s_inodes_count \/ e.s_free_inodes_count < 1
             THEN ExtFail(e, "toomany")
             ELSE [e EXCEPT
                     !.bits = Put(e.bits, bm, ExtBits(e, bm) \cup {o}),
                     !.inodes = Put(e.inodes, ino,
                                [ExtInode(e, ino) EXCEPT !.i_mode = type, !.i_size = size]),
                     !.bg = Put(e.bg, g, [ExtBg(e, g) EXCEPT
                                !.bg_used_dirs_count = IF type = "dir" THEN @ + 1 ELSE @,
                                !.bg_free_inodes_count = (@ - 1) % 65536]),
                     !.s_free_inodes_count = e.s_free_inodes_count - 1,
                     !.nextinode = e.nextinode + 1,
                     !.ret = ino,
                     !.iallocs = Append(e.iallocs, ino)]

ExtSetIBlock(e, ino, i, b) ==
    [e EXCEPT !.inodes = Put(e.inodes, ino,
        [ExtInode(e, ino) EXCEPT !.i_block = [@ EXCEPT ![i] = b]])]
ExtAppendPtr(e, ib, b) ==
    [e EXCEPT !.blk = Put(e.blk, ib, [k |-> "ind", ptrs |-> Append(ExtPtrs(e, ib), b)])]

\* The loop over the double indirect block of ext_add_to_inode (lines 197-206).
RECURSIVE ExtDindLoop(_, _, _, _)
ExtDindLoop(e, dind, j, b) ==
    IF e.err # "ok" THEN e
    ELSE IF j >= SECSIZE \div 4 THEN ExtFail(e, "toobig")
    ELSE With([e1 \in {IF j + 1 > Len(ExtPtrs(e, dind))
                        THEN With([a \in {ext_alloc_blk(e)} |->
                                  IF a.err # "ok" THEN a ELSE ExtAppendPtr(a, dind, a.ret)])
                        ELSE e} |->
         IF e1.err # "ok" THEN e1
         ELSE LET ind == ExtPtrs(e1, dind)[j + 1]
              IN  IF Len(ExtPtrs(e1, ind)) < SECSIZE \div 4
                  THEN ExtAppendPtr(e1, ind, b)
                  ELSE ExtDindLoop(e1, dind, j + 1, b)])

\* Faulty variant of ext_add_to_inode: a block behind the direct slots is
\* stored over the last direct slot.
ext_add_to_inode_direct(e, ino, b) ==
    IF e.err # "ok" THEN e
    ELSE LET free == {i \in 1..ExtNDirect : ExtInode(e, ino).i_block[i] = 0}
         IN  ExtSetIBlock(e, ino, IF free = {} THEN ExtNDirect
                                  ELSE CHOOSE i \in free : \A i2 \in free : i <= i2, b)

\* void ext_add_to_inode(ino, blk, name)
ext_add_to_inode(e, ino, b) ==
    IF e.err # "ok" THEN e
    ELSE LET ib == ExtInode(e, ino).i_block
             free == {i \in 1..ExtNDirect : ib[i] = 0}
         IN  IF free # {}
             THEN ExtSetIBlock(e, ino, CHOOSE i \in free : \A i2 \in free : i <= i2, b)
             ELSE With([e1 \in {IF ib[13] = 0
                                 THEN With([a \in {ext_alloc_blk(e)} |->
                                           IF a.err # "ok" THEN a
                                           ELSE ExtSetIBlock(a, ino, 13, a.ret)])
                                 ELSE e} |->
                  IF e1.err # "ok" THEN e1
                  ELSE LET ind == ExtInode(e1, ino).i_block[13]
                       IN  IF Len(ExtPtrs(e1, ind)) < SECSIZE \div 4
                           THEN ExtAppendPtr(e1, ind, b)
                           ELSE With([e2 \in {IF ib[14] = 0
                                              THEN With([a \in {ext_alloc_blk(e1)} |->
                                                        IF a.err # "ok" THEN a
                                                        ELSE ExtSetIBlock(a, ino, 14, a.ret)])
                                              ELSE e1} |->
                                IF e2.err # "ok" THEN e2
                                ELSE ExtDindLoop(e2, ExtInode(e2, ino).i_block[14], 0, b)])])

\* The directory record at byte offset p of the buffer.
ExtDirentAt(e, p) ==
    LET b == p \div SECSIZE
        off == p % SECSIZE
    IN  IF p >= 0 /\ b \in DOMAIN e.blk /\ e.blk[b].k = "dir" /\ off \in DOMAIN e.blk[b].ents
        THEN e.blk[b].ents[off] ELSE ExtZeroDirent
\* Store record d at byte offset p; records whose first bytes it covers are gone.
ExtPutDirent(e, p, d) ==
    LET b == p \div SECSIZE
        off == p % SECSIZE
        old == IF b \in DOMAIN e.blk /\ e.blk[b].k = "dir" THEN e.blk[b].ents ELSE EmptyFn
        keep == {x \in DOMAIN old : x < off \/ x >= off + 8 + d.name_len}
    IN  [e EXCEPT !.blk = Put(e.blk, b,
            [k |-> "dir", ents |-> Put([x \in keep |-> old[x]], off, d)])]

\* uint8_t *ext_add_dirent(dir, toinode, ino, type, name, len): the returned
\* pointer is left in ret.
ext_add_dirent(e, dir, toinode, ino, type, name) ==
    IF e.err # "ok" THEN e
    ELSE LET length == Len(name)
             straddle == dir \div SECSIZE # (dir + length + 8) \div SECSIZE
             dir1 == IF e.lastdir # NULLP /\ dir # NULLP /\ straddle THEN NULLP ELSE dir
         IN  With([e1 \in {IF ino # 0
                            THEN [e EXCEPT !.inodes = Put(e.inodes, ino,
                                     [ExtInode(e, ino) EXCEPT !.i_links_count = @ + 1])]
                            ELSE e} |->
             With([e2 \in {IF e.lastdir # NULLP /\ dir # NULLP /\ ~straddle
                            THEN ExtPutDirent(e1, e.lastdir,
                                     [ExtDirentAt(e1, e.lastdir) EXCEPT
                                         !.rec_len = dir - e.lastdir])
                            ELSE e1} |->
             With([a \in {IF dir1 = NULLP THEN ext_alloc_blk(e2) ELSE e2} |->
             With([e3 \in {IF dir1 = NULLP THEN ext_add_to_inode(a, toinode, a.ret) ELSE e2} |->
             LET dir2 == IF dir1 = NULLP THEN a.ret * SECSIZE ELSE dir1
             IN  IF e3.err # "ok" THEN e3
                 ELSE [ExtPutDirent(e3, dir2,
                            [inode |-> ino, rec_len |-> SECSIZE - (dir2 % SECSIZE),
                             name_len |-> length, type |-> type, name |-> name])
                         EXCEPT !.lastdir = dir2, !.ret = dir2 + Align4(length) + 8]])])])])


\* The group loop of ext_open (lines 282-299) for group i: l, the number of
\* blocks of the group taken by its metadata, and the inodes o of the group.
ExtGroupInodes(i, ipg, icount) ==
    Min(IF ipg * i + ipg > icount THEN icount - ipg * i ELSE ipg, icount)
ExtGroupMeta(i, ipg, icount) ==
    3 + 1 + CeilDiv(ExtGroupInodes(i, ipg, icount) * ExtInodeSize, SECSIZE)

\* void ext_open(gpt_entry) for a partition of n sectors of 512 bytes, up to
\* and including the group loop.
ExtFormat(n) ==
    LET numblk == (n * 512) \div SECSIZE
        numbg == Max(numblk \div ExtBpg, 1)
        ipg == Min(numblk \div numbg, ExtBpg)
        icount == Min(ipg * numbg, numblk)
        groups == 0..(numbg - 1)
        free(i) == (Min(numblk - ExtBpg * i, ExtBpg) - ExtGroupMeta(i, ipg, icount)) % 65536
        RECURSIVE Sum(_)
        Sum(i) == IF i < 0 THEN 0 ELSE free(i) + Sum(i - 1)
    IN  IF numblk < 8 THEN ExtFail(ExtIdle, "nosize")
        ELSE IF numbg > ExtBgSlots - 1 THEN ExtFail(ExtIdle, "toomany")
        ELSE [err |-> "ok", ret |-> 0, numblk |-> numblk, numbg |-> numbg,
              nextinode |-> 0, nextblk |-> ExtGroupMeta(0, ipg, icount),
              blkgap |-> ExtGroupMeta(0, ipg, icount), root |-> 0, lastdir |-> NULLP,
              s_blocks_count |-> numblk, s_inodes_count |-> icount,
              s_inodes_per_group |-> ipg,
              s_free_inodes_count |-> icount, s_free_blocks_count |-> Sum(numbg - 1),
              bg |-> [i \in groups |->
                        [bg_block_bitmap |-> ExtBpg * i + 2,
                         bg_inode_bitmap |-> ExtBpg * i + 2 + 1,
                         bg_inode_table |-> ExtBpg * i + 3 + 1,
                         bg_free_blocks_count |-> free(i),
                         bg_free_inodes_count |-> ExtGroupInodes(i, ipg, icount),
                         bg_used_dirs_count |-> 0]],
              bits |-> [b \in {ExtBpg * i + 2 : i \in groups} |->
                          0..(ExtGroupMeta((b - 2) \div ExtBpg, ipg, icount) - 1)],
              inodes |-> EmptyFn, blk |-> EmptyFn,
              allocs |-> <<>>, iallocs |-> <<>>, backups |-> {}]

RECURSIVE ExtAllocReserved(_, _)
\* inodes 1 and 3..10 of ext_open (lines 300-309): empty regular files
ExtAllocReserved(e, k) ==
    IF k = 0 THEN e ELSE ExtAllocReserved(ext_alloc_inode(e, "reg", 0), k - 1)

\* void ext_open(gpt_entry)
ext_open(n) ==
    With([f \in {ExtFormat(n)} |->
    IF f.err # "ok" THEN f
    ELSE With([i2 \in {ext_alloc_inode(ext_alloc_inode(f, "reg", 0), "dir", SECSIZE)} |->
         With([r \in {[i2 EXCEPT !.root = i2.ret]} |->
         With([i11 \in {ext_alloc_inode(ExtAllocReserved(r, 8), "dir", 4 * SECSIZE)} |->
         With([d1 \in {ext_add_dirent(i11, NULLP, r.root, r.root, 2, Dot)} |->
         With([d2 \in {ext_add_dirent(d1, d1.ret, r.root, r.root, 2, DotDot)} |->
         With([d3 \in {ext_add_dirent(d2, d2.ret, r.root, i11.ret, 2, LostFound)} |->
         With([l1 \in {ext_add_dirent(d3, NULLP, i11.ret, i11.ret, 2, Dot)} |->
         With([l2 \in {ext_add_dirent(l1, l1.ret, i11.ret, r.root, 2, DotDot)} |->
         With([l3 \in {ext_add_dirent(l2, NULLP, i11.ret, 0, 0, <<>>)} |->
         With([l4 \in {ext_add_dirent(l3, NULLP, i11.ret, 0, 0, <<>>)} |->
         ext_add_dirent(l4, NULLP, i11.ret, 0, 0, <<>>)])])])])])])])])])])])

\* The name lookup of ext_add (lines 342-371). s holds the local variables
\* parent, k, i, dir_entry, ext_lastdir and ci, the index of the path component
\* fn..end; scanning tells the while loop from the label again. A match of the
\* last component moves fn past the end of the name (undefined behaviour); the
\* directory walk never delivers a name twice, so the model never gets there.
RECURSIVE ExtLookup(_, _, _, _)
ExtLookup(e, s, path, scanning) ==
    LET inode == ExtInode(e, s.parent)
        blk == inode.i_block[s.k + 1] * SECSIZE
    IN  IF ~scanning
        THEN \* label again
             IF s.k > ExtNDirect - 1 THEN [s EXCEPT !.err = "toomany"]
             ELSE IF inode.i_block[s.k + 1] = 0
                  THEN [s EXCEPT !.dir_entry = NULLP, !.lastdir = NULLP]
                  ELSE ExtLookup(e, [s EXCEPT !.dir_entry = blk], path, TRUE)
        ELSE LET d == ExtDirentAt(e, s.dir_entry) IN
             IF d.inode = 0 THEN s
             ELSE IF d.name_len = Len(path[s.ci]) /\ d.name = path[s.ci]
                  THEN IF s.ci = Len(path) THEN [s EXCEPT !.err = "undefined"]
                       ELSE ExtLookup(e, [s EXCEPT !.parent = d.inode, !.i = 0, !.k = 0,
                                       !.lastdir = NULLP, !.ci = s.ci + 1], path, FALSE)
             ELSE IF s.i + d.rec_len >= inode.i_size
                  THEN [s EXCEPT !.lastdir = s.dir_entry,
                                 !.dir_entry = s.dir_entry + Align4(d.name_len) + 8]
             ELSE IF s.dir_entry + d.rec_len - blk >= SECSIZE
                  THEN ExtLookup(e, [s EXCEPT !.lastdir = s.dir_entry, !.i = s.i + d.rec_len,
                                       !.dir_entry = s.dir_entry + d.rec_len,
                                       !.k = s.k + 1], path, FALSE)
                  ELSE ExtLookup(e, [s EXCEPT !.lastdir = s.dir_entry, !.i = s.i + d.rec_len,
                                       !.dir_entry = s.dir_entry + d.rec_len], path, TRUE)

\* The content loop of ext_add (lines 391-398): one block per SECSIZE bytes.
RECURSIVE ExtWriteFile(_, _, _, _)
ExtWriteFile(e, n, size, pos) ==
    IF e.err # "ok" \/ size = 0 THEN e
    ELSE IF size > 2 * SECSIZE
    THEN \* the iterations of a long loop, first half then second half
         LET h == ((size \div SECSIZE) \div 2) * SECSIZE
         IN  With([a \in {ExtWriteFile(e, n, h, pos)} |->
                  ExtWriteFile(a, n, size - h, pos + h)])
    ELSE LET k == Min(size, SECSIZE)
         IN  With([a \in {ext_alloc_blk(e)} |->
             With([w \in {IF a.err # "ok" THEN a
                           ELSE [a EXCEPT !.blk = Put(a.blk, a.ret,
                                    [k |-> "data", ino |-> n, pos |-> pos, len |-> k])]} |->
             ExtWriteFile(ext_add_to_inode(w, n, a.ret), n, size - k, pos + SECSIZE)])])

\* void ext_add(st, name, content, size). st_size is st->st_size, size the
\* length of content (of the file, or of the link's target).
ext_add(e, type, st_size, rdev, path, size) ==
    IF path[Len(path)] \in {Dot, DotDot} THEN e
    ELSE IF type \notin {"reg", "dir", "lnk", "chr", "blk"} THEN e
    ELSE With([a \in {ext_alloc_inode(e, type, st_size)} |->
         IF a.err # "ok" THEN a
         ELSE
         With([s \in {ExtLookup(a, [parent |-> a.root, k |-> 0, i |-> 0, ci |-> 1,
                                    dir_entry |-> NULLP, lastdir |-> NULLP, err |-> "ok"],
                                path, FALSE)} |->
         IF s.err # "ok" THEN ExtFail(a, s.err)
         ELSE
         With([d \in {ext_add_dirent([a EXCEPT !.lastdir = s.lastdir], s.dir_entry, s.parent,
                                     a.ret, ExtFt(type), path[s.ci])} |->
         LET n == a.ret
         IN  IF d.err # "ok" THEN d
             ELSE IF type = "dir"
                  THEN With([d1 \in {ext_add_dirent(d, NULLP, n, n, 2, Dot)} |->
                            ext_add_dirent(d1, d1.ret, n, s.parent, 2, DotDot)])
             ELSE IF type \in {"chr", "blk"}
                  THEN ExtSetIBlock(d, n, 1, rdev)
             ELSE IF type = "lnk"
                  THEN IF size >= SECSIZE THEN ExtFail(d, "toobig")
                       ELSE With([b \in {ext_alloc_blk(d)} |->
                            With([w \in {IF b.err # "ok" THEN b
                                          ELSE [b EXCEPT !.blk = Put(b.blk, b.ret,
                                                 [k |-> "data", ino |-> n, pos |-> 0,
                                                  len |-> s.k])]} |->
                            ext_add_to_inode(w, n, b.ret)])])
             ELSE ExtWriteFile(d, n, size, 0)])])])

\* the byte offset i * (SECSIZE<<3) of the copy ext_close makes for group i
ExtBackupAt(i) == i * (SECSIZE * 8)
\* the inode numbers stored in block b (group 0 holds the blocks ext_close
\* writes: their byte offsets are below one group's size)
ExtInodesIn(e, b) ==
    {ino \in DOMAIN e.inodes :
        ExtBg(e, 0).bg_inode_table + ((ino - 1) * ExtInodeSize) \div SECSIZE = b}
\* Faulty variant of ext_close: no copy is written.
ext_close_none(e, length) == e
\* void ext_close(): for every group i >= 1 the first two blocks of the image
\* are copied to byte offset i * (SECSIZE<<3) and s_block_group_nr of the copy
\* is set to i. backups holds the groups served; the blocks written hold the
\* copies, and the inodes stored in them are gone.
ext_close(e, length) ==
    IF e.err # "ok" THEN e
    ELSE With([G \in {{i \in 1..(e.numbg - 1) : ExtBackupAt(i) + 2 * SECSIZE <= length}} |->
         With([B \in {{ExtBackupAt(i) \div SECSIZE : i \in G}} |->
            [e EXCEPT
               !.backups = G,
               !.blk = [b \in B \cup {x + 1 : x \in B} |->
                          IF b \in B
                          THEN [k |-> "sbcopy", nr |-> (b * SECSIZE) \div (SECSIZE * 8)]
                          ELSE [k |-> "bgcopy"]] @@ e.blk,
               !.inodes = [ino \in DOMAIN e.inodes |->
                             IF \E b \in B : ino \in ExtInodesIn(e, b) \cup ExtInodesIn(e, b + 1)
                             THEN [ExtZeroInode EXCEPT !.i_mode = "bytes"]
                             ELSE e.inodes[ino]]]])])


(***************************************************************************)
(* FAT16/32 builder (src/mkbootimg/fat.c).                                 *)
(* Directory memory is kept per 32-byte slot: mem maps the byte offset of  *)
(* a slot to its 32 bytes. files lists the content extents copied in; a    *)
(* byte of an extent that no later slot write covers reads as ContentByte. *)
(***************************************************************************)
\* the byte every file content consists of
ContentByte == 99
\* SECTOR_PER_CLUSTER * 512
FatBpc == 512
FatSlotSize == 32
FatMinClusters == 4085
Fat32Clusters == 65525
FatEoc16 == 65535
FatEoc32 == 268435455
\* uint16_t uc2[256]: the most LFN records (13 units each) that fit
FatMaxLfn == 19

FatIdle == [err |-> "idle"]
FatFail(f, what) == [f EXCEPT !.err = what]
FatEoc(f) == IF f.fat16 THEN FatEoc16 ELSE FatEoc32
\* The number of entries that fit in the fat_spf sectors of one FAT copy: the
\* second copy starts at entry FatPer(f) of the first, and the root directory
\* of FAT32 at entry FatPer(f) of the second.
FatPer(f) == (f.spf * 512) \div (IF f.fat16 THEN 2 ELSE 4)
\* Entry c of a copy whose single stores are in map: runs holds the ranges
\* lo..hi of entries that the chain loop of fat_add set to c + 1 in both copies.
FatIn(f, map, c) ==
    IF c \in DOMAIN map THEN map[c]
    ELSE IF \E r \in f.runs : r.lo <= c /\ c <= r.hi
    THEN (IF f.fat16 THEN (c + 1) % 65536 ELSE c + 1)
    ELSE 0
\* fat_fat16_1[c] or fat_fat32_1[c]
FatEntry(f, c) ==
    IF c < FatPer(f) THEN FatIn(f, f.fat1, c) ELSE FatIn(f, f.fat2, c - FatPer(f))
\* The content byte at offset a, as the memcpy calls of fat_add left it.
FatContentAt(f, a) ==
    IF \E i \in DOMAIN f.files : f.files[i].start <= a /\ a < f.files[i].start + f.files[i].size
    THEN ContentByte ELSE 0
\* The 32 bytes at byte offset dir..dir+31; byte x of the slot is FatSlot(f, dir)[x + 1].
FatSlot(f, dir) ==
    IF dir \in DOMAIN f.mem THEN f.mem[dir]
    ELSE [j \in 1..FatSlotSize |-> FatContentAt(f, dir + j - 1)]
\* A read of the slot at dir stays inside the buffer.
FatInside(f, dir) == dir >= 0 /\ dir + FatSlotSize <= f.len
\* fat_data + c * fat_bpc; a cluster number beyond the partition's sector
\* count in either direction gives an address outside the buffer.
FatCluAddr(f, c) ==
    IF c > f.numclu THEN f.len ELSE IF c < 0 - f.numclu THEN 0 - FatSlotSize
    ELSE f.data + c * FatBpc

\* memcpy(fs_base + a, bytes, Len(bytes)) and single byte stores: a write past
\* the end of the buffer is undefined behaviour.
FatWrite(f, a, bytes) ==
    IF f.err # "ok" \/ Len(bytes) = 0 THEN f
    ELSE LET last == a + Len(bytes) - 1
             touched == {d \in {FatSlotSize * k : k \in (a \div FatSlotSize)..(last \div FatSlotSize)} : TRUE}
             new(d) == [j \in 1..FatSlotSize |->
                          IF a <= d + j - 1 /\ d + j - 1 <= last
                          THEN bytes[d + j - a] ELSE FatSlot(f, d)[j]]
         IN  IF a < 0 \/ last >= f.len
             THEN [f EXCEPT !.err = "undefined", !.maxw = Max(f.maxw, last + 1)]
             ELSE [f EXCEPT !.mem = [d \in (DOMAIN f.mem) \cup touched |->
                                       IF d \in touched THEN new(d) ELSE f.mem[d]],
                            !.maxw = Max(f.maxw, last + 1)]

\* fat_fat16_1[c] = fat_fat16_2[c] = v (or the fat32 pair): the store to the
\* second copy comes first. fat1 and fat2 hold the first FatPer(f) entries of
\* each copy; an entry from FatPer(f) on lies in the memory that follows.
FatSetEntry(f, c, v) ==
    IF f.err # "ok" THEN f
    ELSE LET es == IF f.fat16 THEN 2 ELSE 4
             off2 == (f.resv + f.spf) * 512 + c * es + es
             val == IF f.fat16 THEN v % 65536 ELSE v
             bytes == IF f.fat16 THEN <<val % 256, val \div 256>>
                      ELSE <<val % 256, (val \div 256) % 256, (val \div 65536) % 256,
                             (val \div 16777216) % 256>>
         IN  IF c < 0 \/ off2 > f.len
             THEN [f EXCEPT !.err = "undefined", !.maxw = Max(f.maxw, off2)]
             ELSE IF c < FatPer(f)
             THEN [f EXCEPT !.fat1 = Put(f.fat1, c, val),
                            !.fat2 = Put(f.fat2, c, val),
                            !.maxw = Max(f.maxw, off2)]
             ELSE With([f2 \in {FatWrite(f, (f.resv + f.spf) * 512 + c * es, bytes)} |->
                  IF f2.err # "ok" THEN f2
                  ELSE [f2 EXCEPT !.fat2 = Put(f2.fat2, c - FatPer(f), val)]])

\* The while loops of fat_newclu (lines 45-46, 50-51): the end of parent's chain.
RECURSIVE FatChainEnd(_, _)
FatChainEnd(f, parent) ==
    IF parent # f.nextcluster /\ FatEntry(f, parent) # 0 /\ FatEntry(f, parent) # FatEoc(f)
    THEN FatChainEnd(f, FatEntry(f, parent))
    ELSE parent

\* unsigned char *fat_newclu(int parent): the returned pointer is left in ret.
fat_newclu(f, parent) ==
    IF f.err # "ok" THEN f
    ELSE LET clu == f.nextcluster
         IN  With([f1 \in {FatSetEntry(FatSetEntry(f, FatChainEnd(f, parent), clu),
                                       clu, FatEoc(f))} |->
             IF f1.err # "ok" THEN f1
             ELSE IF clu + 1 >= f.numclu
                  THEN [f1 EXCEPT !.err = "toobig", !.nextcluster = clu + 1]
                  ELSE [f1 EXCEPT !.nextcluster = clu + 1, !.ret = f.data + clu * FatBpc,
                                  !.allocs = Append(f.allocs, clu)]])

\* Little-endian fields of a slot.
FatLe16(s, x) == s[x + 2] * 256 + s[x + 1]
\* a 32-bit int from its four bytes, low byte first
FatInt32(b0, b1, b2, b3) ==
    (IF b3 >= 128 THEN b3 - 256 ELSE b3) * 16777216 + b2 * 65536 + b1 * 256 + b0
\* line 123: the cluster of a short-name record
FatSlotClu(s) == FatInt32(s[27], s[28], s[21], s[22])
\* line 124: the size of a short-name record
FatSlotSizeField(s) == FatInt32(s[29], s[30], s[31], s[32])
FatBytes32(v) == <<v % 256, (v \div 256) % 256, (v \div 65536) % 256, (v \div 16777216) % 256>>

\* while(dir[0] == '.') dir += 32;
RECURSIVE FatSkipDots(_, _)
FatSkipDots(f, dir) ==
    IF FatInside(f, dir) /\ FatSlot(f, dir)[1] = 46 THEN FatSkipDots(f, dir + FatSlotSize) ELSE dir

\* Lines 80-86 of fat_readlfn: the name read from a short-name record.
FatSfnName(s) ==
    LET stop == {i \in 1..8 : s[i] = 0 \/ s[i] = 32}
        i == IF stop = {} THEN 8 ELSE (CHOOSE x \in stop : \A y \in stop : x <= y) - 1
        estop == {j \in 0..(2 - i) : s[9 + j] = 32}
        ecount == IF i >= 3 THEN 0
                  ELSE IF estop = {} THEN 3 - i
                  ELSE CHOOSE x \in estop : \A y \in estop : x <= y
    IN  IF s[9] # 0 /\ s[9] # 32
        THEN SubSeq(s, 1, i) \o <<46>> \o SubSeq(s, 9, 8 + ecount)
        ELSE SubSeq(s, 1, i)

\* Lines 92-97: the 13 UTF-16 units of a long-name record.
FatSlotUnit(s, k) ==
    IF k < 5 THEN FatLe16(s, 2 * k + 1)
    ELSE IF k < 11 THEN FatLe16(s, 2 * (k - 5) + 14)
    ELSE IF k = 11 THEN FatLe16(s, 28) ELSE FatLe16(s, 30)

\* Lines 111-121: UTF-16 units to UTF-8 bytes.
FatUtf8(u) ==
    IF u < 128 THEN <<u>>
    ELSE IF u < 2048 THEN <<((u \div 64) % 32) + 192, (u % 64) + 128>>
    ELSE <<((u \div 4096) % 16) + 224, ((u \div 64) % 64) + 128, (u % 64) + 128>>
RECURSIVE FatUc2From(_, _, _)
FatUc2From(uc2, i, n) ==
    IF i >= n THEN <<>> ELSE FatUtf8(uc2[i]) \o FatUc2From(uc2, i + 1, n)
\* the units of uc2 before the first zero unit, converted; units below 128
\* convert one to one
FatUc2Name(uc2) ==
    LET zeros == {i \in DOMAIN uc2 : uc2[i] = 0}
        n == IF zeros = {} THEN Cardinality(DOMAIN uc2)
             ELSE CHOOSE x \in zeros : \A y \in zeros : x <= y
    IN  IF \A i \in 0..(n - 1) : uc2[i] < 128 THEN [i \in 1..n |-> uc2[i - 1]]
        ELSE FatUc2From(uc2, 0, n)

\* The while(n--) loop of fat_readlfn (lines 91-110); n is the count before the
\* decrement, so u points at unit (n - 1) * 13 of uc2.
RECURSIVE FatLfnLoop(_, _, _, _, _)
FatLfnLoop(f, dir, parent, n, uc2) ==
    IF n = 0 THEN [dir |-> dir, uc2 |-> uc2, err |-> "ok"]
    ELSE IF ~FatInside(f, dir) THEN [dir |-> dir, uc2 |-> uc2, err |-> "undefined"]
    ELSE LET s == FatSlot(f, dir)
             base == (n - 1) * 13
             uc == [x \in (DOMAIN uc2) \cup (base..(base + 12)) |->
                      IF x >= base /\ x <= base + 12 THEN FatSlotUnit(s, x - base) ELSE uc2[x]]
             dir1 == dir + FatSlotSize
             atb == dir1 % FatBpc = 0
             p1 == IF atb THEN FatEntry(f, parent) ELSE parent
         IN  IF atb /\ (p1 = 0 \/ p1 = FatEoc(f))
             THEN [dir |-> NULLP, uc2 |-> uc, err |-> "ok"]
             ELSE FatLfnLoop(f, IF atb THEN FatCluAddr(f, p1) ELSE dir1, p1, n - 1, uc)

\* unsigned char *fat_readlfn(dir, &clu, &size, parent). The result holds the
\* returned pointer (NULLP for NULL), *clu, *size, fat_lfn and fat_lfncnt.
fat_readlfn(f, dir, clu, size, parent) ==
    LET r0 == [dir |-> dir, clu |-> clu, size |-> size, lfn |-> <<>>,
               lfncnt |-> f.lfncnt, err |-> "ok"]
        r1 == [r0 EXCEPT !.lfncnt = f.lfncnt + 1]
    IN  IF ~FatInside(f, dir) THEN [r0 EXCEPT !.err = "undefined"]
        ELSE IF FatSlot(f, dir)[1] = 0 THEN r0
        ELSE
        With([dir1 \in {FatSkipDots(f, dir)} |->
        LET atb == parent # 2 /\ dir1 % FatBpc = 0
            p1 == IF atb THEN FatEntry(f, parent) ELSE parent
            dir2 == IF atb THEN FatCluAddr(f, p1) ELSE dir1
        IN  IF atb /\ (p1 = 0 \/ p1 = FatEoc(f)) THEN [r1 EXCEPT !.dir = NULLP]
            ELSE IF ~FatInside(f, dir2) THEN [r1 EXCEPT !.err = "undefined"]
            ELSE
            With([s \in {FatSlot(f, dir2)} |->
            IF s[12] # 15
            THEN [r1 EXCEPT !.lfn = FatSfnName(s), !.clu = FatSlotClu(s),
                            !.size = FatSlotSizeField(s), !.dir = dir2 + FatSlotSize]
            ELSE IF s[1] % 64 > FatMaxLfn THEN [r1 EXCEPT !.err = "undefined"]
            ELSE
            With([l \in {FatLfnLoop(f, dir2, p1, s[1] % 64, EmptyFn)} |->
            IF l.err # "ok" THEN [r1 EXCEPT !.err = "undefined"]
            ELSE IF l.dir = NULLP THEN [r1 EXCEPT !.dir = NULLP]
            ELSE IF ~FatInside(f, l.dir) THEN [r1 EXCEPT !.err = "undefined"]
            ELSE With([t \in {FatSlot(f, l.dir)} |->
                 [r1 EXCEPT !.lfn = FatUc2Name(l.uc2), !.clu = FatSlotClu(t),
                            !.size = FatSlotSizeField(t), !.dir = l.dir + FatSlotSize]])])])])

\* Lines 138-145 of fat_writelfn: the UTF-8 name as UTF-16 units. A name of
\* bytes below 128 converts unit by unit.
RECURSIVE FatToUc2From(_, _)
FatToUc2From(name, i) ==
    IF i > Len(name) THEN <<>>
    ELSE IF name[i] < 128 THEN <<name[i]>> \o FatToUc2From(name, i + 1)
    ELSE IF (name[i] \div 32) % 2 = 0
         THEN <<(name[i] % 32) * 64 + (IF i + 1 <= Len(name) THEN name[i + 1] % 64 ELSE 0)>>
              \o FatToUc2From(name, i + 2)
    ELSE <<(name[i] % 16) * 4096 + (IF i + 1 <= Len(name) THEN name[i + 1] % 64 ELSE 0) * 64
            + (IF i + 2 <= Len(name) THEN name[i + 2] % 64 ELSE 0)>>
         \o FatToUc2From(name, i + 3)
FatToUc2(name) ==
    IF \A i \in DOMAIN name : name[i] < 128 THEN name ELSE FatToUc2From(name, 1)
\* a lead byte with bits 128, 32 and 16 set ends the build (line 142)
FatBadName(name) == \E i \in DOMAIN name : name[i] >= 240

\* sprintf(sfn, "~%07xLFN", fat_lfncnt)
FatHexDigit(d) == IF d < 10 THEN 48 + d ELSE 87 + d
FatSfn(cnt) ==
    <<126>> \o [i \in 1..7 |-> FatHexDigit((cnt \div (16 ^ (7 - i))) % 16)] \o <<76, 70, 78>>
\* Lines 148-149: the checksum of the short name.
RECURSIVE FatChecksum(_, _, _)
FatChecksum(sfn, i, c) ==
    IF i > 11 THEN c
    ELSE FatChecksum(sfn, i + 1, (((c % 2) * 128 + c \div 2) + sfn[i]) % 256)

\* unit x (from 0) of the zero-filled array uc2
FatUnitAt(units, x) == IF x + 1 <= Len(units) THEN units[x + 1] ELSE 0
FatUnitBytes(units, from, count) ==
    [j \in 1..(2 * count) |->
        IF j % 2 = 1 THEN FatUnitAt(units, from + (j - 1) \div 2) % 256
        ELSE FatUnitAt(units, from + (j - 1) \div 2) \div 256]

\* The while(n--) loop of fat_writelfn (lines 153-165); n is the count before
\* the decrement, i the flag 0x40 of the first record written.
RECURSIVE FatWriteRecords(_, _, _, _, _, _, _)
FatWriteRecords(f, dir, parent, n, i, units, c) ==
    IF f.err # "ok" THEN f
    ELSE IF n = 0 THEN [f EXCEPT !.ret = dir]
    ELSE LET grow == parent > 2 /\ dir % FatBpc = 0
             u == (n - 1) * 13
         IN  With([f1 \in {IF grow THEN fat_newclu(f, parent) ELSE f} |->
             LET d == IF grow THEN f1.ret ELSE dir
                 w1 == FatWrite(f1, d, <<i + n>> \o FatUnitBytes(units, u, 5) \o <<15>>)
                 w2 == FatWrite(w1, d + 13, <<c>>)
                 w3 == FatWrite(w2, d + 14, FatUnitBytes(units, u + 5, 6))
                 w4 == FatWrite(w3, d + 28, FatUnitBytes(units, u + 11, 2))
             IN  FatWriteRecords([w4 EXCEPT !.wat = Append(@, d)], d + FatSlotSize,
                                 parent, n - 1, 0, units, c)])

\* unsigned char *fat_writelfn(dir, name, type, size, parent, clu): the returned
\* pointer is left in ret. The time stamp written is that of st_mtime = 0.
\* wname and wat note the last long name written and the addresses of its
\* records in the order they were written.
fat_writelfn(f, dir, name, type, size, parent, clu) ==
    IF f.err # "ok" THEN f
    ELSE LET dot == Len(name) > 0 /\ name[1] = 46
         IN  IF ~dot /\ FatBadName(name) THEN FatFail(f, "write")
             ELSE
             With([units \in {FatToUc2(name)}, sfn \in {FatSfn(f.lfncnt)} |->
             IF ~dot /\ Len(units) > 256 THEN FatFail(f, "undefined")
             ELSE
             \* lines 150-167: the long-name records and the cluster that may follow
             With([g \in {IF dot THEN f
                          ELSE With([recs \in {FatWriteRecords(
                                                  [f EXCEPT !.lfncnt = f.lfncnt + 1,
                                                            !.wname = name, !.wat = <<>>],
                                                  dir,
                                                  parent, (Len(units) + 12) \div 13, 64,
                                                  units, FatChecksum(sfn, 1, 0))} |->
                                    IF parent > 2 /\ recs.ret % FatBpc = 0
                                    THEN fat_newclu(recs, parent) ELSE recs])} |->
             LET d == IF dot THEN dir ELSE g.ret
             IN
             With([f1 \in {IF dot
                           THEN FatWrite(FatWrite(f, dir, [j \in 1..11 |-> 32]), dir, name)
                           ELSE [FatWrite(g, d, sfn) EXCEPT !.wat = Append(@, d)]} |->
             With([f2 \in {IF type THEN FatWrite(f1, d + 11, <<16>>)
                           ELSE FatWrite(f1, d + 28, FatBytes32(size))} |->
             LET c1 == IF clu = 0 THEN f2.nextcluster ELSE clu
                 c2 == IF c1 < 3 THEN 0 ELSE c1
                 f3 == FatWrite(f2, d + 26, <<c2 % 256, (c2 \div 256) % 256>>)
                 f4 == FatWrite(f3, d + 20,
                                <<(c2 \div 65536) % 256, (c2 \div 16777216) % 256>>)
             IN
             With([f5 \in {FatWrite(FatWrite(f4, d + 14, <<0, 0>>), d + 22, <<0, 0>>)} |->
             IF f5.err # "ok" THEN f5
             ELSE [f5 EXCEPT !.ret = d + FatSlotSize]])])])])])

\* void fat_open(gpt_entry) for a partition of n sectors.
fat_open(n) ==
    LET fat16 == n < Fat32Clusters
        spf == IF fat16 THEN (n * 2 + 511) \div 512 ELSE (n * 4) \div 512 - 8
        resv == IF fat16 THEN 4 ELSE 8
        rootdir == (spf * 2 + resv) * 512
        data == IF fat16 THEN rootdir + ((512 * 32 - 2 * FatBpc) \div FatBpc) * FatBpc
                ELSE rootdir - 2 * FatBpc
    IN  IF n < FatMinClusters THEN FatFail(FatIdle, "nosize")
        ELSE [err |-> "ok", ret |-> 0, numclu |-> n, len |-> n * 512, fat16 |-> fat16,
              spf |-> spf, resv |-> resv, rootdir |-> rootdir, data |-> data,
              nextcluster |-> 3, lfncnt |-> 0,
              fat1 |-> IF fat16 THEN (0 :> 65528) @@ (1 :> 65535)
                       ELSE (0 :> 268435448) @@ (1 :> 268435455) @@ (2 :> 268435448),
              fat2 |-> IF fat16 THEN (0 :> 65528) @@ (1 :> 65535)
                       ELSE (0 :> 268435448) @@ (1 :> 268435455) @@ (2 :> 268435448),
              runs |-> {}, mem |-> EmptyFn, files |-> <<>>, maxw |-> 0, allocs |-> <<>>,
              wname |-> <<>>, wat |-> <<>>,
              fsinfo |-> [free |-> 0 - 1, next |-> 0 - 1], backup |-> FALSE]

\* The rest of the name from component ci on: what fn points at.
RECURSIVE FatRest(_, _)
FatRest(path, ci) ==
    IF ci > Len(path) THEN <<>>
    ELSE IF ci = Len(path) THEN path[ci]
    ELSE path[ci] \o <<47>> \o FatRest(path, ci + 1)

\* !memcmp(fat_lfn, fn, end - fn) && !fat_lfn[end - fn]
FatNameIs(lfn, comp) ==
    /\ \A x \in 1..Len(comp) : x <= Len(lfn) /\ lfn[x] = comp[x]
    /\ (Len(lfn) <= Len(comp) \/ lfn[Len(comp) + 1] = 0)

\* The do-while loop of fat_add (lines 258-269). s holds the local variables
\* dir, clu, size, parent, the index ci of the path component fn..end, and
\* fat_lfncnt; out is "write" when the loop is left, "return" for the return of
\* line 260, "undefined" for a read outside the buffer or the name.
RECURSIVE FatWalk(_, _, _)
FatWalk(f, s, path) ==
    With([r \in {fat_readlfn([f EXCEPT !.lfncnt = s.lfncnt], s.dir, s.clu, s.size,
                              s.parent)} |->
    LET s1 == [s EXCEPT !.dir = r.dir, !.clu = r.clu, !.size = r.size, !.lfncnt = r.lfncnt]
        sub == FatCluAddr(f, r.clu) + 2 * FatSlotSize
        s2 == [s1 EXCEPT !.lfncnt = 1, !.parent = r.clu, !.dir = sub, !.ci = s.ci + 1]
        match == FatNameIs(r.lfn, path[s.ci])
    IN  IF r.err # "ok" THEN [s1 EXCEPT !.out = "undefined"]
        ELSE IF r.dir = NULLP THEN [s1 EXCEPT !.out = "return"]
        ELSE IF match /\ s.ci = Len(path) THEN [s2 EXCEPT !.out = "undefined"]
        ELSE IF match /\ s.ci + 1 = Len(path) THEN [s2 EXCEPT !.out = "write"]
        ELSE With([s3 \in {IF match THEN s2 ELSE s1} |->
             IF ~FatInside(f, s3.dir) THEN [s3 EXCEPT !.out = "undefined"]
             ELSE IF FatSlot(f, s3.dir)[1] # 0 THEN FatWalk(f, s3, path)
             ELSE [s3 EXCEPT !.out = "write"]])])

\* memcpy(fat_data + fat_nextcluster * fat_bpc, content, size)
FatCopy(f, a, size) ==
    IF a + size > f.len
    THEN [f EXCEPT !.err = "undefined", !.maxw = Max(f.maxw, a + size)]
    ELSE LET keep == {d \in DOMAIN f.mem : d + FatSlotSize <= a \/ d >= a + size \/ d + FatSlotSize > a + size}
         IN  [f EXCEPT !.files = Append(f.files, [start |-> a, size |-> size]),
                       !.maxw = Max(f.maxw, a + size),
                       !.mem = [d \in keep |->
                                  [j \in 1..FatSlotSize |->
                                     IF d + j - 1 >= a /\ d + j - 1 < a + size
                                     THEN ContentByte ELSE f.mem[d][j]]]]

\* The chain loop of fat_add (lines 281-284) for the clusters still to link.
\* A run of iterations that stays below entry FatPer(f) is taken at once, a
\* longer one half by half.
RECURSIVE FatChain(_, _)
FatChain(f, count) ==
    IF f.err # "ok" \/ count = 0 THEN f
    ELSE IF count > 1 /\ f.nextcluster + count <= FatPer(f)
    THEN LET hi == f.nextcluster + count - 1
             es == IF f.fat16 THEN 2 ELSE 4
             keep(map) == [c \in {x \in DOMAIN map : x < f.nextcluster \/ x > hi} |-> map[c]]
         IN  [f EXCEPT !.fat1 = keep(f.fat1),
                       !.fat2 = keep(f.fat2),
                       !.runs = f.runs \cup {[lo |-> f.nextcluster, hi |-> hi]},
                       !.maxw = Max(f.maxw, (f.resv + f.spf) * 512 + (f.nextcluster + count) * es),
                       !.nextcluster = f.nextcluster + count,
                       !.allocs = f.allocs \o [i \in 1..count |-> f.nextcluster + i - 1]]
    ELSE IF count > 1
    THEN With([h \in {FatChain(f, count \div 2)} |-> FatChain(h, count - count \div 2)])
    ELSE [FatSetEntry(f, f.nextcluster, f.nextcluster + 1) EXCEPT
             !.nextcluster = f.nextcluster + 1,
             !.allocs = Append(f.allocs, f.nextcluster)]

\* void fat_add(st, name, content, size); content holds size bytes.
fat_add(f, type, path, size) ==
    IF path[Len(path)] \in {Dot, DotDot} THEN f
    ELSE IF type \notin {"reg", "dir"} THEN f
    ELSE With([s \in {FatWalk(f, [dir |-> f.rootdir, clu |-> 0, size |-> size,
                                  parent |-> 2, ci |-> 1, lfncnt |-> 1, out |-> "walk"],
                              path)} |->
         IF s.out = "undefined" THEN FatFail([f EXCEPT !.lfncnt = s.lfncnt], "undefined")
         ELSE IF s.out = "return" THEN [f EXCEPT !.lfncnt = s.lfncnt, !.wat = <<>>]
         ELSE
         With([w \in {fat_writelfn([f EXCEPT !.lfncnt = s.lfncnt], s.dir,
                                   FatRest(path, s.ci), type = "dir", s.size, s.parent,
                                   0)} |->
         IF w.err # "ok" THEN w
         ELSE IF type = "dir"
              THEN With([n \in {fat_newclu(w, w.nextcluster)} |->
                   With([d1 \in {fat_writelfn(n, n.ret, Dot, TRUE, 0, 2,
                                              n.nextcluster - 1)} |->
                   fat_writelfn(d1, d1.ret, DotDot, TRUE, 0, 2, s.parent)])])
         ELSE IF s.size > 0
              THEN IF s.size > size THEN FatFail(w, "undefined")
                   ELSE IF w.nextcluster * FatBpc + s.size >= w.len THEN FatFail(w, "toobig")
                   ELSE With([c \in {FatCopy(w, f.data + w.nextcluster * FatBpc,
                                             s.size)} |->
                        IF c.err # "ok" THEN c
                        ELSE With([l \in {FatChain(c, CeilDiv(s.size, FatBpc))} |->
                             FatSetEntry(l, l.nextcluster - 1, FatEoc(l))])])
         ELSE w])])

\* void fat_close()
fat_close(f) ==
    IF f.len < 512 \/ f.fat16 THEN f
    ELSE [f EXCEPT !.nextcluster = f.nextcluster - 2,
                   !.fsinfo = [free |-> ((f.len - f.rootdir) \div FatBpc) - (f.nextcluster - 2),
                               next |-> f.nextcluster - 2],
                   !.backup = TRUE]

(***************************************************************************)
(* LeanFS builder (src/mkbootimg/lean.c). Sectors are 512 bytes. Directory *)
(* data is kept per 16-byte unit: dmem maps the byte offset of a unit to   *)
(* its bytes. An inode lives in the sector that carries its number.        *)
(***************************************************************************)
LenSector == 512
\* 1 << LEAN_LOG_BANDSIZE
LenBand == 4096
LEAN_BITMAPSIZE == 1
LEAN_INODE_EXTENT_CNT == 6
LenPrealloc == 7
LenUnit == 16
\* primary_super: the sectors before it hold the loader
LenPrimarySuper == 32

LenIdle == [err |-> "idle"]
LenFail(l, what) == [l EXCEPT !.err = what]
LenZeroInode ==
    [type |-> "none", links_count |-> 0, file_size |-> 0, sector_count |-> 0,
     extent_count |-> 0, extent_start |-> [x \in 1..LEAN_INODE_EXTENT_CNT |-> 0],
     extent_size |-> [x \in 1..LEAN_INODE_EXTENT_CNT |-> 0]]
LenInode(l, n) == Get(l.inodes, n, LenZeroInode)
LenSetInode(l, n, v) == [l EXCEPT !.inodes = Put(l.inodes, n, v)]
\* the bitmap of band g as the set of its set bits
LenBits(l, g) == Get(l.bits, g, {})
LenChunk(l, a) == Get(l.dmem, a, [j \in 1..LenUnit |-> 0])

\* The while loop of len_alloc_blk (lines 117-121): the cursor skips set bits.
RECURSIVE LenSkip(_, _, _, _)
LenSkip(l, g, o, nb) ==
    IF nb < l.sector_count /\ o \in LenBits(l, g)
    THEN IF o + 1 >= LenBand
         THEN LenSkip(l, g + 1, 0, nb + 1 + LEAN_BITMAPSIZE)
         ELSE LenSkip(l, g, o + 1, nb + 1)
    ELSE [g |-> g, o |-> o, nb |-> nb]

\* int len_alloc_blk(): the sector number is left in ret.
len_alloc_blk(l) ==
    IF l.err # "ok" THEN l
    ELSE With([c \in {LenSkip(l, l.nextblk \div LenBand, l.nextblk % LenBand, l.nextblk)} |->
         LET nb == c.nb + 1
         IN  IF c.nb + 1 >= l.sector_count \/ l.free_sector_count < 1
             THEN [l EXCEPT !.err = "toobig", !.nextblk = c.nb]
             ELSE [l EXCEPT !.bits = Put(l.bits, c.g, LenBits(l, c.g) \cup {c.o}),
                            !.free_sector_count = l.free_sector_count - 1,
                            !.nextblk = IF nb % LenBand = 0 THEN nb + LEAN_BITMAPSIZE ELSE nb,
                            !.ret = c.nb,
                            !.allocs = Append(l.allocs, c.nb)]])

\* void len_add_to_inode(ino, blk, name)
len_add_to_inode(l, ino, blk) ==
    IF l.err # "ok" THEN l
    ELSE LET i0 == LenInode(l, ino)
             c == i0.extent_count
             i1 == [i0 EXCEPT !.sector_count = @ + 1]
         IN  IF c < 1 \/ c > LEAN_INODE_EXTENT_CNT THEN LenFail(l, "undefined")
             ELSE IF i0.extent_start[c] + i0.extent_size[c] = blk
                  THEN LenSetInode(l, ino, [i1 EXCEPT !.extent_size[c] = @ + 1])
             ELSE IF c + 1 < LEAN_INODE_EXTENT_CNT
                  THEN LenSetInode(l, ino, [i1 EXCEPT !.extent_count = c + 1,
                                                      !.extent_start[c + 1] = blk,
                                                      !.extent_size[c + 1] = 1])
             ELSE LenFail(LenSetInode(l, ino, [i1 EXCEPT !.extent_count = c + 1]), "toobig")

\* The preallocation loop of len_alloc_inode (lines 165-166).
RECURSIVE LenPreallocate(_, _, _)
LenPreallocate(l, n, k) ==
    IF l.err # "ok" \/ k = 0 THEN l
    ELSE With([a \in {len_alloc_blk(l)} |->
         LenPreallocate(len_add_to_inode(a, n, a.ret), n, k - 1)])

\* int len_alloc_inode(mode, type, size, t): the inode number is left in ret.
len_alloc_inode(l, type, size) ==
    With([a \in {len_alloc_blk(l)} |->
    IF a.err # "ok" THEN a
    ELSE LET n == a.ret
             ino == [LenInode(a, n) EXCEPT !.type = type, !.extent_count = 1,
                                           !.extent_start[1] = n, !.extent_size[1] = 1,
                                           !.sector_count = 1]
         IN  With([c \in {IF type = "dir"
                          THEN LenPreallocate(LenSetInode(a, n, ino), n, LenPrealloc)
                          ELSE LenSetInode(a, n, [ino EXCEPT !.file_size = size])} |->
             IF c.err # "ok" THEN c ELSE [c EXCEPT !.ret = n]])])

\* memcpy and field stores into directory data at byte offset a.
LenWrite(l, a, bytes) ==
    IF l.err # "ok" \/ Len(bytes) = 0 THEN l
    ELSE LET last == a + Len(bytes) - 1
             touched == {LenUnit * k : k \in (a \div LenUnit)..(last \div LenUnit)}
             new(d) == [j \in 1..LenUnit |->
                          IF a <= d + j - 1 /\ d + j - 1 <= last
                          THEN bytes[d + j - a] ELSE LenChunk(l, d)[j]]
         IN  IF a < 0 \/ last >= l.numblk * LenSector THEN LenFail(l, "undefined")
             ELSE [l EXCEPT !.dmem = [d \in (DOMAIN l.dmem) \cup touched |->
                                        IF d \in touched THEN new(d) ELSE l.dmem[d]]]

\* A 64-bit number that does not fit 31 bits is kept as LenHuge
\* (free_sector_count wraps below zero).
LenHuge == 2147483647
\* Fields of the lean_dirent_t whose first 16 bytes are c.
LenDeInode(c) ==
    IF c[5] # 0 \/ c[6] # 0 \/ c[7] # 0 \/ c[8] # 0 \/ c[4] >= 128 THEN LenHuge
    ELSE c[1] + 256 * c[2] + 65536 * c[3] + 16777216 * c[4]
LenDeRecLen(c) == c[10]
LenDeNameLen(c) == c[11] + 256 * c[12]
LenExtStart(ino, i) ==
    IF i + 1 \in 1..LEAN_INODE_EXTENT_CNT THEN ino.extent_start[i + 1] ELSE 0
LenExtEnd(ino, i) ==
    IF i + 1 \in 1..LEAN_INODE_EXTENT_CNT
    THEN (ino.extent_start[i + 1] + ino.extent_size[i + 1]) * LenSector ELSE 0

\* The search for the end of the directory in len_add_dirent (lines 189-196).
\* s holds dir, end, i and j.
RECURSIVE LenFindEnd(_, _, _)
LenFindEnd(l, ino, s) ==
    LET c == LenChunk(l, s.dir)
        d1 == s.dir + LenDeRecLen(c) * LenUnit
        hop == d1 >= s.end
    IN  IF s.i + 1 > LEAN_INODE_EXTENT_CNT THEN [s EXCEPT !.err = "undefined"]
        ELSE IF s.j < ino.file_size /\ LenDeInode(c) # 0 /\ LenDeRecLen(c) # 0
             THEN LenFindEnd(l, ino,
                     [s EXCEPT !.j = s.j + LenDeRecLen(c) * LenUnit,
                               !.dir = IF hop THEN LenExtStart(ino, s.i + 1) * LenSector
                                                   + ((d1 - s.end) % LenSector)
                                       ELSE d1,
                               !.end = IF hop THEN LenExtEnd(ino, s.i + 1) ELSE s.end,
                               !.i = IF hop THEN s.i + 1 ELSE s.i])
             ELSE s

\* The name loop of len_add_dirent (lines 212-221) for the bytes after the
\* first four. s holds dir, end and i; name is what is left to copy.
RECURSIVE LenWriteName(_, _, _, _)
LenWriteName(l, ino, s, name) ==
    IF l.err # "ok" THEN [l EXCEPT !.ret = s.dir]
    ELSE LET hop == s.dir >= s.end
             dir == IF hop THEN LenExtStart(ino, s.i + 1) * LenSector ELSE s.dir
             s1 == [s EXCEPT !.dir = dir + LenUnit,
                             !.end = IF hop THEN LenExtEnd(ino, s.i + 1) ELSE s.end,
                             !.i = IF hop THEN s.i + 1 ELSE s.i]
         IN  With([w \in {LenWrite(l, dir, SubSeq(name, 1, Min(Len(name), LenUnit)))} |->
             IF Len(name) > LenUnit
             THEN LenWriteName(w, ino, s1, SubSeq(name, LenUnit + 1, Len(name)))
             ELSE [w EXCEPT !.ret = s1.dir]])

\* uint8_t *len_add_dirent(dir, toinode, ino, type, name, len): the returned
\* pointer is left in ret.
len_add_dirent(l, dir, toinode, ino, type, name) ==
    IF l.err # "ok" THEN l
    ELSE LET length == Len(name)
             sz == LenUnit + (IF length < 4 THEN 0 ELSE ((length + 11) \div 16) * 16)
         IN
         With([l1 \in {LenSetInode(l, ino,
                          [LenInode(l, ino) EXCEPT !.links_count = @ + 1])} |->
         LET t0 == LenInode(l1, toinode)
             grow == dir = NULLP /\ (t0.extent_count = 0 \/ t0.extent_size[1] = 1)
         IN
         With([l2 \in {IF grow
                       THEN With([a \in {len_alloc_blk(l1)} |->
                                 len_add_to_inode(a, toinode, a.ret)])
                       ELSE l1} |->
         IF l2.err # "ok" THEN l2
         ELSE
         With([t1 \in {LenInode(l2, toinode)} |->
         With([s \in {IF dir = NULLP
                      THEN LenFindEnd(l2, t1,
                              [dir |-> t1.extent_start[1] * LenSector + LenSector,
                               end |-> LenExtEnd(t1, 0), i |-> 0, j |-> 0, err |-> "ok"])
                      ELSE [dir |-> dir, end |-> NULLP, i |-> 0, j |-> 0, err |-> "ok"]} |->
         IF s.err # "ok" THEN LenFail(l2, s.err)
         ELSE
         With([l3 \in {LenSetInode(l2, toinode, [t1 EXCEPT !.file_size = @ + sz])} |->
         LET t2 == LenInode(l3, toinode)
         IN  IF t2.file_size > t2.sector_count * LenSector THEN LenFail(l3, "toomany")
             ELSE
             With([l4 \in {LenWrite(l3, s.dir,
                              <<ino % 256, (ino \div 256) % 256, (ino \div 65536) % 256,
                                (ino \div 16777216) % 256, 0, 0, 0, 0,
                                type, sz \div 16, length % 256, length \div 256>>)} |->
             IF s.end # NULLP /\ length > 4
             THEN LenWriteName(LenWrite(l4, s.dir + 12, SubSeq(name, 1, 4)), t2,
                               [s EXCEPT !.dir = s.dir + LenUnit], SubSeq(name, 5, length))
             ELSE [LenWrite(l4, s.dir + 12, name) EXCEPT !.ret = s.dir + sz]])])])])])])

\* void len_open(gpt_entry) for a partition of n sectors.
len_open(n) ==
    LET numband == Max(n \div (LenBand * LenSector), 1)
        backup == Min(n, LenBand) - 1
        bitmap_start == LenPrimarySuper + 1
        free == n - 34 - numband * LEAN_BITMAPSIZE
        f == [err |-> "ok", ret |-> 0, numblk |-> n, nextblk |-> bitmap_start + LEAN_BITMAPSIZE,
              sector_count |-> n,
              free_sector_count |-> IF free < 0 THEN LenHuge ELSE free,
              primary_super |-> LenPrimarySuper, backup_super |-> backup,
              bitmap_start |-> bitmap_start, root_inode |-> 0,
              bits |-> [j \in 0..(numband - 1) |->
                          IF j = 0 THEN (0..(LEAN_BITMAPSIZE + bitmap_start - 1)) \cup {backup}
                          ELSE 0..(LEAN_BITMAPSIZE - 1)],
              inodes |-> EmptyFn, dmem |-> EmptyFn, data |-> EmptyFn,
              allocs |-> <<>>, closed |-> FALSE]
    IN  IF n < LenPrimarySuper + LEAN_BITMAPSIZE THEN LenFail(LenIdle, "nosize")
        ELSE IF (bitmap_start + 1) * LenSector > n * LenSector THEN LenFail(f, "undefined")
        ELSE With([r \in {len_alloc_inode(f, "dir", 0)} |->
             IF r.err # "ok" THEN r
             ELSE With([r1 \in {[r EXCEPT !.root_inode = r.ret]} |->
                  With([d1 \in {len_add_dirent(r1, NULLP, r1.root_inode, r1.root_inode,
                                              2, Dot)} |->
                  len_add_dirent(d1, d1.ret, r1.root_inode, r1.root_inode, 2, DotDot)])])])

\* The inner while loop of len_add (lines 303-312): the name units after the
\* first. s holds dir, end, i, j, k and d_name.
RECURSIVE LenReadName(_, _, _)
LenReadName(l, ino, s) ==
    IF s.j < ino.file_size /\ s.k # 0
    THEN LET hop == s.dir >= s.end
             dir == IF hop THEN LenExtStart(ino, s.i + 1) * LenSector ELSE s.dir
         IN  IF s.k < 0 \/ (hop /\ s.i + 2 > LEAN_INODE_EXTENT_CNT)
             THEN [s EXCEPT !.err = "undefined"]
             ELSE LenReadName(l, ino,
                     [s EXCEPT !.dir = dir + LenUnit, !.j = s.j + LenUnit, !.k = s.k - 1,
                               !.end = IF hop THEN LenExtEnd(ino, s.i + 1) ELSE s.end,
                               !.i = IF hop THEN s.i + 1 ELSE s.i,
                               !.d_name = s.d_name \o LenChunk(l, dir)])
    ELSE s

\* The directory search of len_add (lines 288-321) from the label again on.
\* s holds parent and the index ci of the path component fn..nend; out is
\* "enter" when the search is over, "undefined" when it reads outside the name.
RECURSIVE LenLookup(_, _, _, _)
LenLookup(l, s, path, scan) ==
    LET ino == LenInode(l, s.parent)
        c == LenChunk(l, scan.dir)
        comp == path[s.ci]
        first(p) == [dir |-> LenInode(l, p).extent_start[1] * LenSector + LenSector,
                     end |-> LenExtEnd(LenInode(l, p), 0), i |-> 0, j |-> 0, k |-> 0,
                     d_name |-> <<>>, err |-> "ok", fresh |-> FALSE]
    IN  IF scan.fresh
        THEN IF ino.extent_count > 0 THEN LenLookup(l, s, path, first(s.parent))
             ELSE [s EXCEPT !.out = "enter"]
        ELSE IF scan.j >= ino.file_size THEN [s EXCEPT !.out = "enter"]
        ELSE
        With([r \in {LenReadName(l, ino, [scan EXCEPT !.dir = scan.dir + LenUnit,
                                                     !.j = scan.j + LenUnit,
                                                     !.k = LenDeRecLen(c) - 1,
                                                     !.d_name = SubSeq(c, 13, 16)])} |->
        LET match == /\ LenDeNameLen(c) = Len(comp)
                     /\ \A x \in 1..Len(comp) : x <= Len(r.d_name) /\ r.d_name[x] = comp[x]
        IN  IF r.err # "ok" THEN [s EXCEPT !.out = "undefined"]
            ELSE IF match
                 THEN IF s.ci = Len(path)
                      THEN [s EXCEPT !.parent = LenDeInode(c), !.out = "undefined"]
                      ELSE IF s.ci + 1 = Len(path)
                      THEN [s EXCEPT !.parent = LenDeInode(c), !.ci = s.ci + 1,
                                     !.out = "enter"]
                      ELSE LenLookup(l, [s EXCEPT !.parent = LenDeInode(c), !.ci = s.ci + 1],
                                     path, [scan EXCEPT !.fresh = TRUE])
            ELSE LenLookup(l, s, path, r)])

\* The content loop of len_add (lines 329-336): one sector per 512 bytes.
RECURSIVE LenWriteFile(_, _, _, _)
LenWriteFile(l, n, size, pos) ==
    IF l.err # "ok" \/ size = 0 THEN l
    ELSE IF size > 2 * LenSector
    THEN \* the iterations of a long loop, first half then second half
         LET h == ((size \div LenSector) \div 2) * LenSector
         IN  With([a \in {LenWriteFile(l, n, h, pos)} |->
                  LenWriteFile(a, n, size - h, pos + h)])
    ELSE LET k == Min(size, LenSector)
         IN  With([a \in {len_alloc_blk(l)} |->
             With([w \in {IF a.err # "ok" THEN a
                          ELSE [a EXCEPT !.data = Put(a.data, a.ret,
                                                     [ino |-> n, pos |-> pos, len |-> k])]} |->
             LenWriteFile(len_add_to_inode(w, n, a.ret), n, size - k, pos + k)])])

\* LEAN_FT_REG, LEAN_FT_DIR, LEAN_FT_LNK
LenFt(t) == IF t = "dir" THEN 2 ELSE IF t = "lnk" THEN 3 ELSE 1

\* void len_add(st, name, content, size)
len_add(l, type, path, size) ==
    IF path[Len(path)] \in {Dot, DotDot} \/ type \notin {"reg", "dir", "lnk"} THEN l
    ELSE With([a \in {len_alloc_inode(l, type, size)} |->
         IF a.err # "ok" THEN a
         ELSE
         With([s \in {LenLookup(a, [parent |-> a.root_inode, ci |-> 1, out |-> "search"],
                               path,
                               [fresh |-> TRUE, dir |-> 0, end |-> 0, i |-> 0, j |-> 0,
                                k |-> 0, d_name |-> <<>>, err |-> "ok"])} |->
         IF s.out = "undefined" THEN LenFail(a, "undefined")
         ELSE
         With([d \in {len_add_dirent(a, NULLP, s.parent, a.ret, LenFt(type), path[s.ci])} |->
         LET n == a.ret
         IN  IF d.err # "ok" THEN d
             ELSE IF type = "dir"
                  THEN With([d1 \in {len_add_dirent(d, NULLP, n, n, 2, Dot)} |->
                            len_add_dirent(d1, d1.ret, n, s.parent, 2, DotDot)])
             ELSE LenWriteFile(d, n, size, 0)])])])

\* void len_close()
len_close(l, length) ==
    IF length < (l.backup_super + 1) * LenSector THEN l
    ELSE [l EXCEPT !.closed = TRUE]

(***************************************************************************)
(* Minix3 builder (src/utilies/mkbootimg/minix.c). Blocks and zones are    *)
(* 4096 bytes. bmap maps a bitmap block to the set of bit positions set in *)
(* it; zones maps a zone to what was written there: directory records      *)
(* (ents), zone pointers (ptrs) or file content (data).                    *)
(***************************************************************************)
DEFAULT_BLOCK_SIZE == 4096
MFS_DIRSIZ == 60
NR_DZONES == 7
NR_TZONES == 10
\* sizeof(direct_t), sizeof(inode_t)
MnxDirentSize == 64
MnxInodeSize == 64
NR_DIR_ENTRIES == DEFAULT_BLOCK_SIZE \div MnxDirentSize
INDIRECTS == DEFAULT_BLOCK_SIZE \div 4
FS_BITCHUNK_BITS == 32
FS_BITS_PER_BLOCK == (DEFAULT_BLOCK_SIZE \div 4) * FS_BITCHUNK_BITS
MnxMinBlocks == 8

MnxIdle == [err |-> "idle"]
MnxFail(m, what) == [m EXCEPT !.err = what]
MnxZeroInode == [mode |-> "none", i_nlinks |-> 0, i_size |-> 0,
                 i_zone |-> [x \in 1..NR_TZONES |-> 0]]
MnxInode(m, n) == Get(m.inodes, n, MnxZeroInode)
MnxSetInode(m, n, v) == [m EXCEPT !.inodes = Put(m.inodes, n, v)]
MnxZeroZone == [kind |-> "zero", ents |-> <<>>, ptrs |-> <<>>, ino |-> 0, pos |-> 0,
                valid |-> 0]
MnxZone(m, z) == Get(m.zones, z, MnxZeroZone)
\* a zone outside the buffer
MnxOutside(m, z) == z < 0 \/ z >= m.numblk

\* void mnx_insert_bit(map, bit): the 32-bit word is addressed at byte offset w
\* of the block, so bit s of it is bit 8 * w + s of the block.
mnx_insert_bit(m, map, bit) ==
    LET map_block == map + bit \div FS_BITS_PER_BLOCK
        boff == bit % FS_BITS_PER_BLOCK
        w == boff \div FS_BITCHUNK_BITS
        sh == boff % FS_BITCHUNK_BITS
    IN  IF m.err # "ok" THEN m
        ELSE IF map_block * DEFAULT_BLOCK_SIZE + w + 4 > m.numblk * DEFAULT_BLOCK_SIZE
        THEN MnxFail(m, "undefined")
        ELSE [m EXCEPT !.bmap = Put(m.bmap, map_block,
                                    Get(m.bmap, map_block, {}) \cup {8 * w + sh})]

\* void mnx_incr_link(n)
mnx_incr_link(m, n) ==
    IF m.err # "ok" THEN m
    ELSE MnxSetInode(m, n, [MnxInode(m, n) EXCEPT !.i_nlinks = @ + 1])

\* void mnx_incr_size(n, count)
mnx_incr_size(m, n, count) ==
    IF m.err # "ok" THEN m
    ELSE MnxSetInode(m, n, [MnxInode(m, n) EXCEPT !.i_size = @ + count])

\* ino_t mnx_alloc_inode(mode, usrid, grpid): the number is left in ret.
mnx_alloc_inode(m, mode) ==
    LET num == m.next_inode
        m1 == [m EXCEPT !.next_inode = num + 1]
    IN  IF m.err # "ok" THEN m
        ELSE IF num > m.s_ninodes THEN MnxFail(m1, "toomany")
        ELSE With([m3 \in {mnx_insert_bit(
                              MnxSetInode(m1, num, [MnxInode(m1, num) EXCEPT !.mode = mode]),
                              2, num)} |->
             IF m3.err # "ok" THEN m3
             ELSE [m3 EXCEPT !.ret = num, !.iallocs = Append(m3.iallocs, num)]])

\* zone_t mnx_alloc_zone(void): the zone is left in ret.
mnx_alloc_zone(m) ==
    IF m.err # "ok" THEN m
    ELSE LET z == m.next_zone
         IN  With([m1 \in {mnx_insert_bit([m EXCEPT !.next_zone = z + 1], m.zone_map,
                                         z - m.zoff)} |->
             IF m1.err # "ok" THEN m1
             ELSE [m1 EXCEPT !.ret = z, !.allocs = Append(m1.allocs, z)]])

\* Store of zone z in the first free slot of the block of pointers at zone
\* ind (lines 163-170); ret is 1 when it found a slot.
MnxIndPut(m, ind, z) ==
    LET b == MnxZone(m, ind)
    IN  IF m.err # "ok" THEN m
        ELSE IF MnxOutside(m, ind) \/ b.kind \notin {"zero", "ind"} THEN MnxFail(m, "undefined")
        ELSE IF Len(b.ptrs) >= INDIRECTS THEN [m EXCEPT !.ret = 0]
        ELSE IF z = 0 THEN [m EXCEPT !.ret = 1]
        ELSE [m EXCEPT !.ret = 1,
                       !.zones = Put(m.zones, ind, [b EXCEPT !.kind = "ind",
                                                             !.ptrs = Append(b.ptrs, z)])]

\* The double indirect loop of mnx_add_zone (lines 177-194).
RECURSIVE MnxDindLoop(_, _, _, _)
MnxDindLoop(m, dind, j, z) ==
    LET d == MnxZone(m, dind)
    IN  IF m.err # "ok" THEN m
        ELSE IF j >= INDIRECTS THEN MnxFail(m, "toobig")
        ELSE IF MnxOutside(m, dind) \/ d.kind \notin {"zero", "ind"} THEN MnxFail(m, "undefined")
        ELSE
        With([m1 \in {IF j + 1 > Len(d.ptrs)
                      THEN With([a \in {mnx_alloc_zone(m)} |->
                                [a EXCEPT !.zones = Put(a.zones, dind,
                                    [d EXCEPT !.kind = "ind",
                                              !.ptrs = Append(d.ptrs, a.ret)])]])
                      ELSE m} |->
        IF m1.err # "ok" THEN m1
        ELSE With([r \in {MnxIndPut(m1, MnxZone(m1, dind).ptrs[j + 1], z)} |->
             IF r.err # "ok" \/ r.ret = 1 THEN r
             ELSE MnxDindLoop(m1, dind, j + 1, z)])])

\* void mnx_add_zone(n, z, bytes, mtime, name)
mnx_add_zone(m, n, z, bytes) ==
    LET p == [MnxInode(m, n) EXCEPT !.i_size = @ + bytes]
        free == {x \in 1..NR_DZONES : p.i_zone[x] = 0}
        first == CHOOSE x \in free : \A y \in free : x <= y
    IN  IF m.err # "ok" THEN m
        ELSE IF free # {} THEN MnxSetInode(m, n, [p EXCEPT !.i_zone[first] = z])
        ELSE
        \* lines 159-162: the indirect zone
        With([m2 \in {IF p.i_zone[NR_DZONES + 1] = 0
                      THEN With([a \in {mnx_alloc_zone(MnxSetInode(m, n, p))} |->
                                MnxSetInode(a, n, [p EXCEPT !.i_zone[NR_DZONES + 1] = a.ret])])
                      ELSE MnxSetInode(m, n, p)} |->
        IF m2.err # "ok" THEN m2
        ELSE
        With([r \in {MnxIndPut(m2, MnxInode(m2, n).i_zone[NR_DZONES + 1], z)} |->
        IF r.err # "ok" \/ r.ret = 1 THEN r
        ELSE
        \* lines 173-176: the double indirect zone
        With([m3 \in {IF MnxInode(r, n).i_zone[NR_DZONES + 2] = 0
                      THEN With([b \in {mnx_alloc_zone(r)} |->
                                MnxSetInode(b, n, [MnxInode(b, n) EXCEPT
                                                      !.i_zone[NR_DZONES + 2] = b.ret])])
                      ELSE r} |->
        IF m3.err # "ok" THEN m3
        ELSE MnxDindLoop(m3, MnxInode(m3, n).i_zone[NR_DZONES + 2], 0, z)])])])

\* Faulty variant of mnx_dir_try_enter: a full block takes the record in its
\* last slot.
mnx_dir_try_enter_last(m, z, child, name) ==
    LET b == MnxZone(m, z)
        rec == [d_ino |-> child, d_name |-> SubSeq(name, 1, Min(Len(name), MFS_DIRSIZ))]
    IN  IF m.err # "ok" THEN m
        ELSE IF MnxOutside(m, z) \/ b.kind \notin {"zero", "dir"} THEN MnxFail(m, "undefined")
        ELSE IF Len(b.ents) < NR_DIR_ENTRIES
        THEN [m EXCEPT !.ret = 1,
                       !.zones = Put(m.zones, z, [b EXCEPT !.kind = "dir",
                                                           !.ents = Append(b.ents, rec)])]
        ELSE [m EXCEPT !.ret = 1,
                       !.zones = Put(m.zones, z,
                                     [b EXCEPT !.ents[NR_DIR_ENTRIES] = rec])]

\* int mnx_dir_try_enter(z, child, name): ret is 1 when the record was stored.
\* strncpy keeps the first MFS_DIRSIZ bytes of the name.
mnx_dir_try_enter(m, z, child, name) ==
    LET b == MnxZone(m, z)
        rec == [d_ino |-> child, d_name |-> SubSeq(name, 1, Min(Len(name), MFS_DIRSIZ))]
    IN  IF m.err # "ok" THEN m
        ELSE IF MnxOutside(m, z) \/ b.kind \notin {"zero", "dir"} THEN MnxFail(m, "undefined")
        ELSE IF Len(b.ents) < NR_DIR_ENTRIES
        THEN [m EXCEPT !.ret = 1,
                       !.zones = Put(m.zones, z, [b EXCEPT !.kind = "dir",
                                                           !.ents = Append(b.ents, rec)])]
        ELSE [m EXCEPT !.ret = 0]

\* The direct zones loop of mnx_enter_dir (lines 226-235); ret is 1 when the
\* record was stored.
RECURSIVE MnxEnterDirect(_, _, _, _, _)
MnxEnterDirect(m, parent, name, child, k) ==
    IF m.err # "ok" THEN m
    ELSE IF k >= NR_DZONES THEN [m EXCEPT !.ret = 0]
    ELSE
    With([m1 \in {IF MnxInode(m, parent).i_zone[k + 1] = 0
                  THEN With([a \in {mnx_alloc_zone(m)} |->
                            MnxSetInode(a, parent,
                                [MnxInode(a, parent) EXCEPT !.i_zone[k + 1] = a.ret])])
                  ELSE m} |->
    With([r \in {mnx_dir_try_enter(m1, MnxInode(m1, parent).i_zone[k + 1], child, name)} |->
    IF r.err # "ok" \/ r.ret = 1 THEN r
    ELSE MnxEnterDirect(r, parent, name, child, k + 1)])])

\* The indirect loop of mnx_enter_dir (lines 243-253).
RECURSIVE MnxEnterIndirect(_, _, _, _, _)
MnxEnterIndirect(m, ind, name, child, k) ==
    LET b == MnxZone(m, ind)
    IN  IF m.err # "ok" THEN m
        ELSE IF k >= INDIRECTS THEN MnxFail(m, "toobig")
        ELSE IF MnxOutside(m, ind) \/ b.kind \notin {"zero", "ind"} THEN MnxFail(m, "undefined")
        ELSE
        With([m1 \in {IF k + 1 > Len(b.ptrs)
                      THEN With([a \in {mnx_alloc_zone(m)} |->
                                [a EXCEPT !.zones = Put(a.zones, ind,
                                    [b EXCEPT !.kind = "ind",
                                              !.ptrs = Append(b.ptrs, a.ret)])]])
                      ELSE m} |->
        With([r \in {mnx_dir_try_enter(m1, MnxZone(m1, ind).ptrs[k + 1], child, name)} |->
        IF r.err # "ok" \/ r.ret = 1 THEN r
        ELSE MnxEnterIndirect(r, ind, name, child, k + 1)])])

\* void mnx_enter_dir(parent, name, child)
mnx_enter_dir(m, parent, name, child) ==
    With([d \in {MnxEnterDirect(m, parent, name, child, 0)} |->
    IF d.err # "ok" \/ d.ret = 1 THEN d
    ELSE
    With([m1 \in {IF MnxInode(d, parent).i_zone[NR_DZONES + 1] = 0
                  THEN With([a \in {mnx_alloc_zone(d)} |->
                            MnxSetInode(a, parent,
                                [MnxInode(a, parent) EXCEPT
                                    !.i_zone[NR_DZONES + 1] = a.ret])])
                  ELSE d} |->
    MnxEnterIndirect(m1, MnxInode(m1, parent).i_zone[NR_DZONES + 1], name, child, 0)])])

\* s_ninodes as mnx_open computes it from the size in KiB (lines 272-279)
MnxNinodes(kb) ==
    LET per == IF kb >= 1000000000 THEN 12 ELSE IF kb >= 100000000 THEN 10
               ELSE IF kb >= 10000000 THEN 8 ELSE IF kb >= 1000000 THEN 6
               ELSE IF kb >= 100000 THEN 4 ELSE 2
        ipb == DEFAULT_BLOCK_SIZE \div MnxInodeSize
    IN  ((kb \div per + ipb - 1) \div ipb) * ipb

\* void mnx_open(gpt_entry) for a partition of n sectors.
mnx_open(n) ==
    LET numblk == (n * 512) \div DEFAULT_BLOCK_SIZE
        ninodes == MnxNinodes((numblk * DEFAULT_BLOCK_SIZE) \div 1024)
        imap == (1 + ninodes + DEFAULT_BLOCK_SIZE - 1) \div DEFAULT_BLOCK_SIZE
        zmap == (numblk + DEFAULT_BLOCK_SIZE - 1) \div DEFAULT_BLOCK_SIZE
        ioff == 2 + imap + zmap
        ipb == DEFAULT_BLOCK_SIZE \div MnxInodeSize
        first == ioff + (ninodes + ipb - 1) \div ipb
        m0 == [err |-> "ok", ret |-> 0, numblk |-> numblk, s_ninodes |-> ninodes,
               s_zones |-> numblk, s_imap_blocks |-> imap, s_zmap_blocks |-> zmap,
               inode_offset |-> ioff, next_zone |-> first, zoff |-> first - 1,
               next_inode |-> 1, zone_map |-> 2 + imap, root_inum |-> 0,
               bmap |-> EmptyFn, inodes |-> EmptyFn, zones |-> EmptyFn,
               allocs |-> <<>>, iallocs |-> <<>>]
    IN  IF numblk < MnxMinBlocks \/ ninodes < 1 THEN MnxFail(MnxIdle, "nosize")
        ELSE
        With([m1 \in {mnx_insert_bit(mnx_insert_bit(m0, m0.zone_map, 0), 2, 0)} |->
        With([m2 \in {mnx_alloc_inode(m1, "dir")} |->
        With([m3 \in {[m2 EXCEPT !.root_inum = m2.ret]} |->
        With([a \in {mnx_alloc_zone(m3)} |->
        With([m4 \in {mnx_add_zone(a, m3.root_inum, a.ret, 2 * MnxDirentSize)} |->
        With([m5 \in {mnx_enter_dir(m4, m3.root_inum, Dot, m3.root_inum)} |->
        With([m6 \in {mnx_enter_dir(m5, m3.root_inum, DotDot, m3.root_inum)} |->
        mnx_incr_link(mnx_incr_link(m6, m3.root_inum), m3.root_inum)])])])])])])])

\* dir_entry[i] of the directory block at zone z
MnxEntry(m, z, i) ==
    LET b == MnxZone(m, z)
    IN  IF i + 1 <= Len(b.ents) THEN b.ents[i + 1] ELSE [d_ino |-> 0, d_name |-> <<>>]

\* A pass of the loop of mnx_add at slot q of the directory s.parent that finds
\* another name there and goes on to the next slot (lines 328-342).
MnxWalkPasses(m, s, path, q) ==
    LET ino == MnxInode(m, s.parent)
        z == ino.i_zone[q \div NR_DIR_ENTRIES + 1]
    IN  /\ q \div NR_DIR_ENTRIES < NR_DZONES
        /\ z # 0
        /\ ~MnxOutside(m, z) /\ MnxZone(m, z).kind \in {"zero", "dir"}
        /\ Len(path[s.ci]) < MFS_DIRSIZ
        /\ MnxEntry(m, z, q % NR_DIR_ENTRIES).d_name # path[s.ci]
        /\ (q + 1) * MnxDirentSize < ino.i_size
\* s after the passes that only go on to the next slot
MnxWalkSkip(m, s, path) ==
    With([q \in {CHOOSE q \in (s.k * NR_DIR_ENTRIES + s.i)
                                ..Max(s.k * NR_DIR_ENTRIES + s.i,
                                      NR_DZONES * NR_DIR_ENTRIES) :
                    /\ ~MnxWalkPasses(m, s, path, q)
                    /\ \A r \in (s.k * NR_DIR_ENTRIES + s.i)..(q - 1) :
                          MnxWalkPasses(m, s, path, r)} |->
         [s EXCEPT !.i = q % NR_DIR_ENTRIES, !.k = q \div NR_DIR_ENTRIES]])

\* The directory walk of mnx_add (lines 325-343). s holds parent, i, k and the
\* index ci of the path component fn..end; out is "enter" when the walk is
\* over. The passes over other names are taken together (MnxWalkSkip).
RECURSIVE MnxWalkAt(_, _, _)
MnxWalk(m, s, path) == MnxWalkAt(m, MnxWalkSkip(m, s, path), path)
MnxWalkAt(m, s, path) ==
    LET ino == MnxInode(m, s.parent)
        z == ino.i_zone[s.k + 1]
        e == MnxEntry(m, z, s.i)
        comp == path[s.ci]
        match == e.d_name = comp
        s1 == IF match THEN [s EXCEPT !.parent = e.d_ino, !.i = 0, !.k = 0, !.ci = s.ci + 1]
              ELSE s
        i1 == IF s1.i + 1 = NR_DIR_ENTRIES THEN 0 ELSE s1.i + 1
        k1 == IF s1.i + 1 = NR_DIR_ENTRIES THEN s1.k + 1 ELSE s1.k
        s2 == [s1 EXCEPT !.i = i1, !.k = k1]
    IN  IF z = 0 THEN [s EXCEPT !.out = "enter"]
        ELSE IF s.k >= NR_DZONES THEN [s EXCEPT !.out = "toobig"]
        ELSE IF MnxOutside(m, z) \/ MnxZone(m, z).kind \notin {"zero", "dir"}
                \/ Len(comp) >= MFS_DIRSIZ
        THEN [s EXCEPT !.out = "undefined"]
        ELSE IF match /\ s.ci = Len(path) THEN [s1 EXCEPT !.out = "undefined"]
        ELSE IF match /\ s.ci + 1 = Len(path) THEN [s1 EXCEPT !.out = "enter"]
        ELSE IF (k1 * NR_DIR_ENTRIES + i1) * MnxDirentSize >= ino.i_size
        THEN [s2 EXCEPT !.out = "enter"]
        ELSE MnxWalkAt(m, MnxWalkSkip(m, s2, path), path)

\* The content loop of mnx_add (lines 370-379). Each pass copies a whole block
\* from content; valid is how much of it the content holds. The last pass reads
\* past the content when less than a block is left: the bytes after it are
\* copied along, or the read faults.
RECURSIVE MnxWriteFile(_, _, _, _, _)
MnxWriteFile(m, n, size, pos, fault) ==
    IF m.err # "ok" \/ size = 0 THEN m
    ELSE IF size > 2 * DEFAULT_BLOCK_SIZE
    THEN \* the iterations of a long loop, first half then second half
         LET h == ((size \div DEFAULT_BLOCK_SIZE) \div 2) * DEFAULT_BLOCK_SIZE
         IN  With([a \in {MnxWriteFile(m, n, h, pos, fault)} |->
                  MnxWriteFile(a, n, size - h, pos + h, fault)])
    ELSE
    With([a \in {mnx_alloc_zone(m)} |->
    LET z == a.ret
    IN  IF a.err # "ok" THEN a
        ELSE IF MnxOutside(a, z) \/ (size < DEFAULT_BLOCK_SIZE /\ fault)
        THEN MnxFail(a, "undefined")
        ELSE
        With([r \in {mnx_add_zone(
                        [a EXCEPT !.zones = Put(a.zones, z,
                            [MnxZeroZone EXCEPT !.kind = "data", !.ino = n, !.pos = pos,
                                                !.valid = Min(size, DEFAULT_BLOCK_SIZE)])],
                        n, z, Min(size, DEFAULT_BLOCK_SIZE))} |->
        IF size > DEFAULT_BLOCK_SIZE
        THEN MnxWriteFile(r, n, size - DEFAULT_BLOCK_SIZE, pos + DEFAULT_BLOCK_SIZE, fault)
        ELSE r])])

\* void mnx_add(st, name, content, size)
mnx_add(m, type, st_size, rdev, path, size, fault) ==
    IF path[Len(path)] \in {Dot, DotDot} \/ type \notin {"reg", "dir", "lnk", "chr", "blk"}
    THEN m
    ELSE
    With([a \in {mnx_alloc_inode(m, type)} |->
    IF a.err # "ok" THEN a
    ELSE
    With([s \in {MnxWalk(a, [parent |-> a.root_inum, i |-> 0, k |-> 0, ci |-> 1,
                            out |-> "walk"], path)} |->
    IF s.out # "enter" THEN MnxFail(a, s.out)
    ELSE
    With([e \in {mnx_incr_link(mnx_incr_size(
                    mnx_enter_dir(a, s.parent, FatRest(path, s.ci), a.ret),
                    s.parent, MnxDirentSize), a.ret)} |->
    LET n == a.ret
    IN  IF e.err # "ok" THEN e
        ELSE IF type = "dir"
        THEN With([z \in {mnx_alloc_zone(e)} |->
             With([d \in {mnx_enter_dir(mnx_enter_dir(
                             mnx_add_zone(z, n, z.ret, 2 * MnxDirentSize),
                             n, Dot, n), n, DotDot, s.parent)} |->
             mnx_incr_link(mnx_incr_link(d, s.parent), n)])])
        ELSE IF type \in {"chr", "blk"} THEN mnx_add_zone(e, n, rdev, st_size)
        ELSE IF type = "lnk"
        THEN IF size > DEFAULT_BLOCK_SIZE - 1 THEN MnxFail(e, "toobig")
             ELSE With([z \in {mnx_alloc_zone(e)} |->
                  IF z.err # "ok" THEN z
                  ELSE IF MnxOutside(z, z.ret) THEN MnxFail(z, "undefined")
                  ELSE mnx_add_zone(
                          [z EXCEPT !.zones = Put(z.zones, z.ret,
                              [MnxZeroZone EXCEPT !.kind = "data", !.ino = n,
                                                  !.valid = size + 1])],
                          n, z.ret, size)])
        ELSE MnxWriteFile(e, n, size, 0, fault)])])])

\* void mnx_close()
mnx_close(m) == m

(***************************************************************************)
(* Archive builders (src/mkbootimg/cpio.c, src/mkbootimg/tar.c,            *)
(* src/utilies/mkbootimg/jamesm.c). The buffer grows with every entry; the *)
(* model keeps the entries appended to it and its length len. A partition  *)
(* of 0 sectors stands for gpt_entry = NULL, the build of an initrd.       *)
(***************************************************************************)
\* img holds the bytes of the buffer for the ustar builder
ArcIdle ==
    [err |-> "idle", len |-> 0, entries |-> <<>>, trailer |-> FALSE, nfiles |-> 0,
     img |-> <<>>]
ArcFail(a, what) == [a EXCEPT !.err = what]
ArcRound(n) == ((n + 511) \div 512) * 512
\* sizes of the cpio header and of the name of the trailer
CpioHeader == 76
CpioTrailerName == 11
TarNameMax == 99
JamesmFiles == 64
JamesmHeader == 73
JamesmNameMax == 63

\* void cpio_open(gpt_entry)
cpio_open(a, n) ==
    IF n # 0 THEN ArcFail(a, "initrdtype") ELSE [a EXCEPT !.err = "ok"]

\* void cpio_add(st, name, content, size)
cpio_add(a, type, path, size) ==
    IF a.err # "ok" \/ type \notin {"reg", "dir", "lnk"} THEN a
    ELSE [a EXCEPT !.entries = Append(a.entries, [name |-> FatRest(path, 1), type |-> type,
                                                  size |-> size, at |-> a.len]),
                   !.len = a.len + CpioHeader + Len(FatRest(path, 1)) + 1 + size]

\* void cpio_close()
cpio_close(a) ==
    [a EXCEPT !.trailer = TRUE, !.len = ArcRound(a.len + CpioHeader + CpioTrailerName + 1)]

\* void tar_open(gpt_entry): last - start is one less than the sector count
tar_open(a, n) ==
    IF n # 0 /\ n - 1 < 1 THEN ArcFail(a, "nosize") ELSE [a EXCEPT !.err = "ok"]

\* sprintf("%0<w>o", v): at least w octal digits
RECURSIVE TarOctal(_, _)
TarOctal(v, w) ==
    IF w <= 1 /\ v < 8 THEN <<48 + v>>
    ELSE Append(TarOctal(v \div 8, w - 1), 48 + (v % 8))
\* memcpy(h + off, bytes, Len(bytes)) inside the 512 bytes of a header
TarPut(h, off, bytes) ==
    SubSeq(h, 1, off) \o bytes \o SubSeq(h, off + Len(bytes) + 1, Len(h))
\* strncpy(dst, str, 99): the string cut at 99 bytes, the rest filled with NULs
TarStrncpy(str) ==
    [i \in 1..TarNameMax |-> IF i <= Len(str) THEN str[i] ELSE 0]
\* st_mode & 077777 as the host reports the three types: 0100644, 040755, 0120777
TarMode(type) == CASE type = "dir" -> 16877 [] type = "lnk" -> 8703 [] OTHER -> 420
\* S_ISDIR(st->st_mode) ? 5 : (S_ISLNK(st->st_mode) ? 2 : 0)
TarTypeflag(type) == CASE type = "dir" -> 5 [] type = "lnk" -> 2 [] OTHER -> 0
\* for(i = lo; i <= hi; i++) j += h[i], summed by halves
RECURSIVE TarSum(_, _, _)
TarSum(h, lo, hi) ==
    IF lo > hi THEN 0
    ELSE IF lo = hi THEN h[lo]
    ELSE TarSum(h, lo, (lo + hi) \div 2) + TarSum(h, (lo + hi) \div 2 + 1, hi)
\* Lines 49-60 of tar_add up to the checksum: the header block; content holds
\* size bytes and a terminating NUL.
TarFields(type, name, size) ==
    TarPut(TarPut(TarPut(
    TarPut(TarPut(TarPut(TarPut(TarPut(TarPut(TarPut(TarPut(
        [i \in 1..512 |-> 0],
        0, TarStrncpy(name)),
        100, TarOctal(TarMode(type), 7) \o <<0>>),
        108, TarOctal(0, 7) \o <<0>>),
        116, TarOctal(0, 7) \o <<0>>),
        124, TarOctal(size, 11) \o <<0>>),
        136, TarOctal(0, 11) \o <<0>>),
        148, TarOctal(0, 6) \o <<0>>),
        155, <<32, 48 + TarTypeflag(type), 0>>),
        157, IF type = "lnk" THEN TarStrncpy([i \in 1..size |-> ContentByte]) ELSE <<>>),
        257, <<117, 115, 116, 97, 114, 32, 32>>),
        265, <<114, 111, 111, 116>>)
\* Lines 61-63: j sums the 512 bytes and has the checksum bytes replaced by
\* spaces; it is printed over the field.
TarHeader(type, name, size) ==
    With([h \in {TarPut(TarFields(type, name, size), 297, <<114, 111, 111, 116>>)} |->
        TarPut(h, 148,
               TarOctal(TarSum(h, 1, 512) + TarSum([i \in 1..8 |-> 32 - h[148 + i]], 1, 8), 6)
                   \o <<0>>)])
\* Line 65: the content followed by zeros up to the next multiple of 512
TarData(size) == [i \in 1..ArcRound(size) |-> IF i <= size THEN ContentByte ELSE 0]

\* Faulty variant of tar_add: the data is not padded to a multiple of 512.
tar_add_unpadded(a, type, path, size) ==
    IF a.err # "ok" \/ type \notin {"reg", "dir", "lnk"} THEN a
    ELSE With([name \in {FatRest(path, 1)}, stored \in {IF type = "lnk" THEN 0 ELSE size} |->
         [a EXCEPT !.entries = Append(a.entries,
                            [name |-> SubSeq(name, 1, Min(Len(name), TarNameMax)),
                             type |-> type, size |-> size, at |-> a.len]),
                   !.img = a.img \o TarHeader(type, name, size)
                                 \o [i \in 1..stored |-> ContentByte],
                   !.len = a.len + 512 + stored]])

\* void tar_add(st, name, content, size)
tar_add(a, type, path, size) ==
    IF a.err # "ok" \/ type \notin {"reg", "dir", "lnk"} THEN a
    ELSE With([name \in {FatRest(path, 1)}, stored \in {IF type = "lnk" THEN 0 ELSE size} |->
         [a EXCEPT !.entries = Append(a.entries,
                            [name |-> SubSeq(name, 1, Min(Len(name), TarNameMax)),
                             type |-> type, size |-> size, at |-> a.len]),
                   !.img = a.img \o TarHeader(type, name, size) \o TarData(stored),
                   !.len = a.len + 512 + ArcRound(stored)]])

\* void tar_close()
tar_close(a) == a

\* void jamesm_open(gpt_entry)
jamesm_open(a, n) ==
    IF n # 0 THEN ArcFail(a, "initrdtype")
    ELSE [a EXCEPT !.err = "ok", !.len = 4 + JamesmFiles * JamesmHeader]

\* void jamesm_add(st, name, content, size): a directory has no content
jamesm_add(a, type, path, size) ==
    LET name == FatRest(path, 1)
    IN  IF a.err # "ok" \/ type # "reg" \/ size = 0 THEN a
        ELSE IF a.nfiles > JamesmFiles - 1 THEN ArcFail(a, "toomany")
        ELSE [a EXCEPT !.entries = Append(a.entries,
                            [name |-> SubSeq(name, 1, Min(Len(name), JamesmNameMax)),
                             type |-> type, size |-> size, at |-> a.len]),
                       !.nfiles = (a.nfiles + 1) % 256,
                       !.len = a.len + size]

\* void jamesm_close()
jamesm_close(a) == a

(***************************************************************************)
(* FS/Z (src/utilies/mkbootimg/fsZ.c). The image is kept sector by sector: *)
(* secs maps a sector number to what the code wrote there last, a sector   *)
(* never written reads as zeros. A sector is the superblock, an inode      *)
(* (with its inline area: a directory, inline data, a sector directory or  *)
(* nothing) or file content. len is fs_len, max is fsz_max.                *)
(***************************************************************************)
FSZ_SECSIZE == 4096
\* offsetof(FSZ_Inode, data.small.inlinedata)
FszInodeHead == 1024
\* sizeof(FSZ_DirEntHeader) and sizeof(FSZ_DirEnt)
FszDirEntSize == 128
\* fsz_link_inode stops at this many entries of a directory
FszDirMax == (FSZ_SECSIZE - FszInodeHead - FszDirEntSize) \div FszDirEntSize
\* the characters of a name fsz_link_inode stores
FszNameMax == 110
\* one entry of a sector directory
FszSdEntSize == 16
\* A number field that holds content bytes instead of a number the code
\* wrote; FszJunk + n is that field after n increments.
FszJunk == 0 - 1000

FszIdle == [err |-> "idle"]
FszFail(f, what) == [f EXCEPT !.err = what]
FszZeroSec == [kind |-> "zero"]
FszZeroEnt == [fid |-> 0, name |-> <<>>]
FszSec(f, n) == Get(f.secs, n, FszZeroSec)
FszPut(f, n, rec) == [f EXCEPT !.secs = Put(f.secs, n, rec)]

\* uint32_t crc32_calc(unsigned char *start, int length): the checksum of a
\* region is kept as the region itself, so two regions have the same checksum
\* exactly when they hold the same values.
crc32_calc(region) == <<"crc32", region>>
\* Faulty variant of crc32_calc: the checksum does not depend on the region.
crc32_calc_const(region) == <<"crc32", <<>>>>

\* the region in->filetype .. in->filetype + 1016 of an inode
FszInodeRegion(in) ==
    <<in.filetype, in.mimetype, in.numblocks, in.numlinks, in.sec, in.size, in.flags,
      in.exec>>
\* the region hdr + 16 .. hdr + in->size of a directory: the rest of the header
\* and the entries the size covers
FszDirRegion(d, size) ==
    <<d.numentries, d.fid,
      SubSeq(d.ents, 1, Min(FszDirMax, Max(0, (size - FszDirEntSize) \div FszDirEntSize)))>>

\* the sector s of file content read as an inode: every field holds content
\* bytes
FszJunkInode(s) ==
    [kind |-> "inode", under |-> s, checksum |-> <<"bytes">>, filetype |-> "bytes", mimetype |-> "bytes",
     numblocks |-> FszJunk, numlinks |-> FszJunk, sec |-> FszJunk, size |-> FszJunk,
     flags |-> "bytes", exec |-> FALSE, inl |-> [t |-> "bytes"]]
\* a zeroed sector read as an inode
FszZeroInode ==
    [kind |-> "inode", under |-> FszZeroSec, checksum |-> <<"zero">>, filetype |-> "", mimetype |-> "",
     numblocks |-> 0, numlinks |-> 0, sec |-> 0, size |-> 0,
     flags |-> "direct", exec |-> FALSE, inl |-> [t |-> "none"]]
\* (FSZ_Inode *)(fs_base + n * fsz_secsize)
FszInode(f, n) ==
    With([s \in {FszSec(f, n)} |->
        IF s.kind = "inode" THEN s
        ELSE IF s.kind = "content" THEN FszJunkInode(s)
        ELSE FszZeroInode])

\* int fsz_add_inode(char *filetype, char *mimetype): a new inode at fs_len;
\* mimetype is "" for NULL, tlen is strlen(mimetype) of a link target. ret is
\* the sector number returned.
fsz_add_inode(f, filetype, mimetype, tlen) ==
    IF f.err # "ok" THEN f
    ELSE IF f.max # 0 /\ f.len + FSZ_SECSIZE > f.max THEN FszFail(f, "toobig")
    ELSE With([n \in {f.len \div FSZ_SECSIZE} |->
        With([in \in {[kind |-> "inode", under |-> FszZeroSec, checksum |-> <<"zero">>,
                       filetype |-> filetype,
                       mimetype |-> IF filetype \in {"lnk:", "uni:"} THEN "" ELSE mimetype,
                       numblocks |-> 0, numlinks |-> 0,
                       sec |-> IF filetype = "dir:" THEN n ELSE 0,
                       size |-> IF filetype = "dir:" THEN FszDirEntSize
                                ELSE IF filetype \in {"lnk:", "uni:"} THEN tlen ELSE 0,
                       flags |-> IF filetype = "dir:" THEN "inline" ELSE "direct",
                       exec |-> filetype \in {"dir:", "uni:"},
                       inl |-> IF filetype = "dir:"
                               THEN With([d \in {[t |-> "dir", checksum |-> <<"zero">>,
                                                  numentries |-> 0, fid |-> n,
                                                  ents |-> [i \in 1..FszDirMax |-> FszZeroEnt]]}
                                          |-> [d EXCEPT !.checksum =
                                                   crc32_calc(FszDirRegion(d, FszDirEntSize))]])
                               ELSE IF filetype \in {"lnk:", "uni:"}
                               THEN [t |-> "data", n |-> Min(tlen, FSZ_SECSIZE - FszInodeHead)]
                               ELSE [t |-> "none"]]} |->
            [FszPut(f, n, [in EXCEPT !.checksum = crc32_calc(FszInodeRegion(in))])
                EXCEPT !.len = f.len + FSZ_SECSIZE, !.ret = n]])])

\* strcmp(a, b) < 0 for two names
RECURSIVE FszNameLess(_, _)
FszNameLess(a, b) ==
    IF b = <<>> THEN FALSE
    ELSE IF a = <<>> THEN TRUE
    ELSE IF a[1] # b[1] THEN a[1] < b[1]
    ELSE FszNameLess(Tail(a), Tail(b))
\* fsz_direntcmp(a, b) <= 0
fsz_direntcmp(a, b) == ~FszNameLess(b.name, a.name)
\* Faulty variant of fsz_direntcmp: the order is reversed.
fsz_direntcmp_rev(a, b) == ~FszNameLess(a.name, b.name)
\* qsort(ents, n, sizeof(FSZ_DirEnt), fsz_direntcmp), by insertion
RECURSIVE FszInsert(_, _)
FszInsert(sorted, e) ==
    IF sorted = <<>> THEN <<e>>
    ELSE IF fsz_direntcmp(e, sorted[1]) THEN <<e>> \o sorted
    ELSE <<sorted[1]>> \o FszInsert(Tail(sorted), e)
RECURSIVE FszSort(_)
FszSort(ents) == IF ents = <<>> THEN <<>> ELSE FszInsert(FszSort(Tail(ents)), ents[1])

\* the i-th character of a stored name, zero behind its end
FszNameAt(name, i) == IF i <= Len(name) THEN name[i] ELSE 0
\* !strncmp(ent->name, path, ns + 1) for the component comp of a path; more
\* tells whether a '/' follows it
FszNameHit(name, comp, more) ==
    With([key \in {Append(comp, IF more THEN 47 ELSE 0)} |->
        \A i \in 1..Len(key) : FszNameAt(name, i) = key[i]])
\* the slot the scan of lines 100-106 stops at: the first free one, or the one
\* behind the last
FszFirstFree(ents) ==
    IF \E i \in 1..FszDirMax : ents[i].fid = 0
    THEN CHOOSE i \in 1..FszDirMax : ents[i].fid = 0 /\ \A j \in 1..(i - 1) : ents[j].fid # 0
    ELSE FszDirMax + 1
\* the first slot before c whose name matches, 0 when there is none
FszDirFind(ents, c, comp, more) ==
    With([hits \in {{i \in 1..(c - 1) : FszNameHit(ents[i].name, comp, more)}} |->
        IF hits = {} THEN 0 ELSE CHOOSE i \in hits : \A j \in hits : i <= j])
\* the name written into the entry: the rest of the path, cut at 110
\* characters, '/' appended for a directory
FszEntName(rest, isdir) ==
    With([cut \in {SubSeq(rest, 1, Min(Len(rest), FszNameMax))} |->
        IF isdir THEN Append(cut, 47) ELSE cut])
\* void fsz_link_inode(int inode, char *path, int toinode): path is the whole
\* path, ci the component the call starts at.
RECURSIVE fsz_link_inode(_, _, _, _, _)
fsz_link_inode(f, inode, path, ci, toinode) ==
    IF f.err # "ok" THEN f
    ELSE With([to \in {IF toinode = 0 THEN f.rootdirfid ELSE toinode} |->
         With([d \in {FszSec(f, to)} |->
            \* the directory was overwritten by file content: every slot is
            \* taken and numentries holds content bytes (line 116)
            IF d.kind # "inode" \/ d.inl.t # "dir" THEN FszFail(f, "toomany")
            ELSE With([c \in {FszFirstFree(d.inl.ents)} |->
                 With([hit \in {FszDirFind(d.inl.ents, c, path[ci], ci < Len(path))} |->
                    IF hit # 0
                    THEN IF ci = Len(path) THEN FszFail(f, "undefined")
                         ELSE fsz_link_inode(f, inode, path, ci + 1, d.inl.ents[hit].fid)
                    ELSE IF c > FszDirMax \/ d.inl.numentries >= FszDirMax
                    THEN FszFail(f, "toomany")
                    ELSE With([in2 \in {FszInode(f, inode)} |->
                         With([e \in {[fid |-> inode,
                                       name |-> FszEntName(FatRest(path, ci),
                                                           in2.filetype = "dir:")]} |->
                         With([n \in {d.inl.numentries + 1} |->
                         With([ents \in {With([w \in {[d.inl.ents EXCEPT ![c] = e]} |->
                                            FszSort(SubSeq(w, 1, n))
                                                \o SubSeq(w, n + 1, FszDirMax)])} |->
                         With([dir \in {[t |-> "dir", checksum |-> <<"zero">>,
                                         numentries |-> n, fid |-> d.inl.fid,
                                         ents |-> ents]} |->
                         With([in \in {[d EXCEPT
                                  !.size = d.size + FszDirEntSize,
                                  !.inl = [dir EXCEPT !.checksum =
                                      crc32_calc(FszDirRegion(dir, d.size + FszDirEntSize))]]} |->
                         With([g \in {FszPut(f, to,
                                  [in EXCEPT !.checksum = crc32_calc(FszInodeRegion(in))])} |->
                         With([l2 \in {[FszInode(g, inode) EXCEPT !.numlinks = @ + 1]} |->
                            FszPut(g, inode,
                                [l2 EXCEPT !.checksum = crc32_calc(FszInodeRegion(l2))])
                         ])])])])])])])])])])])])

\* !strcmp(name + strlen(name) - Len(suffix), suffix)
FszEndsWith(name, suffix) ==
    /\ Len(name) >= Len(suffix)
    /\ SubSeq(name, Len(name) - Len(suffix) + 1, Len(name)) = suffix
\* ".txt" and ".sh"
FszSuffixTxt == <<46, 116, 120, 116>>
FszSuffixSh == <<46, 115, 104>>
\* Lines 197-279 for content whose bytes are all ContentByte: no magic
\* matches; of the suffixes the names offered can end in ".txt" and ".sh";
\* without a known suffix the content is text as no byte is below 9.
FszSniff(in, name) ==
    IF FszEndsWith(name, FszSuffixSh)
    THEN [in EXCEPT !.mimetype = "shellscript", !.filetype = "text", !.exec = TRUE]
    ELSE IF FszEndsWith(name, FszSuffixTxt) \/ ContentByte >= 9
    THEN [in EXCEPT !.mimetype = "plain", !.filetype = "text"]
    ELSE in

\* The loop of lines 171-183 from index i on, for content without an empty
\* sector. Chunk i goes to byte offset size + (i + l) * fsz_secsize; a chunk
\* that is read behind the content, or written behind the buffer of buf
\* bytes, is undefined behaviour. The sectors a chunk covers become content.
RECURSIVE FszCopyLoop(_, _, _, _, _, _, _)
FszCopyLoop(f, inode, size, l, i, j, buf) ==
    IF i >= j \/ f.err # "ok" THEN f
    ELSE With([n \in {IF (i + l) * FSZ_SECSIZE > size THEN size % FSZ_SECSIZE
                      ELSE FSZ_SECSIZE}, at \in {size + (i + l) * FSZ_SECSIZE} |->
        IF i * FSZ_SECSIZE + n > size \/ at + n > buf THEN FszFail(f, "undefined")
        ELSE With([k \in {inode + 1 + l + i} |->
             \* memcpy(ptr, &k, 4)
             With([f1 \in {IF l = 0
                           THEN With([in \in {FszInode(f, inode)} |->
                                    IF in.inl.t = "sd"
                                    THEN FszPut(f, inode, [in EXCEPT !.inl.ks = Append(@, k)])
                                    ELSE FszPut(f, inode, in)])
                           ELSE With([sd \in {FszSec(f, size \div FSZ_SECSIZE)} |->
                                    FszPut(f, size \div FSZ_SECSIZE,
                                        IF sd.kind = "sd" THEN [sd EXCEPT !.ks = Append(@, k)]
                                        ELSE [kind |-> "sd", ks |-> <<k>>, under |-> sd])])} |->
             \* memcpy(fs_base + size + (i + l) * fsz_secsize, data + i * fsz_secsize, n)
             With([f2 \in {IF n = 0 THEN f1
                           ELSE [f1 EXCEPT !.secs =
                                   [s \in (at \div FSZ_SECSIZE)..((at + n - 1) \div FSZ_SECSIZE) |->
                                      [kind |-> "content", file |-> inode, idx |-> i,
                                       from |-> at, n |-> n]] @@ f1.secs]} |->
             \* in->numblocks++
             With([f3 \in {FszPut(f2, inode,
                              [FszInode(f2, inode) EXCEPT !.numblocks = @ + 1])} |->
                FszCopyLoop(f3, inode, size, l, i + 1, j, buf)])])])])])

\* void fsz_add_file(char *name, unsigned char *data, unsigned long int size)
fsz_add_file(f, path, size) ==
    With([a \in {fsz_add_inode(f, "appl", "octet-stream", 0)},
          s \in {CeilDiv(size, FSZ_SECSIZE) * FSZ_SECSIZE} |->
        IF a.err # "ok" THEN a
        ELSE IF a.max # 0 /\ a.len + FSZ_SECSIZE + s > a.max THEN FszFail(a, "toobig")
        ELSE With([inode \in {a.ret},
                   z \in {FszPut(a, a.len \div FSZ_SECSIZE, FszZeroSec)} |->
        With([in \in {[FszInode(z, inode) EXCEPT !.size = size]} |->
        With([m \in {
            IF size <= FSZ_SECSIZE - FszInodeHead
            THEN [FszPut(z, inode, [in EXCEPT !.sec = inode, !.flags = "inline",
                                              !.numblocks = 0,
                                              !.inl = [t |-> "data", n |-> size]])
                     EXCEPT !.grow = 0]
            ELSE IF size > FSZ_SECSIZE
            THEN With([j \in {s \div FSZ_SECSIZE} |->
                    IF j * FszSdEntSize > FSZ_SECSIZE THEN FszFail(z, "toobig")
                    ELSE With([l \in {IF j * FszSdEntSize <= FSZ_SECSIZE - FszInodeHead
                                      THEN 0 ELSE 1} |->
                         [FszCopyLoop(
                             FszPut(z, inode,
                                 [in EXCEPT !.sec = z.len \div FSZ_SECSIZE,
                                            !.flags = IF l = 0 THEN "sd0" ELSE "sd1",
                                            !.numblocks = l,
                                            !.inl = IF l = 0 THEN [t |-> "sd", ks |-> <<>>]
                                                    ELSE @]),
                             inode, size, l, 0, j, z.len + FSZ_SECSIZE + s)
                            EXCEPT !.grow = s]])])
            ELSE [FszPut(FszPut(z, inode, [in EXCEPT !.sec = z.len \div FSZ_SECSIZE,
                                                     !.flags = "direct", !.numblocks = 1]),
                         z.len \div FSZ_SECSIZE,
                         [kind |-> "content", file |-> inode, idx |-> 0,
                          from |-> z.len, n |-> size])
                     EXCEPT !.grow = s]} |->
            IF m.err # "ok" THEN m
            ELSE With([t \in {FszSniff(FszInode(m, inode), FatRest(path, 1))} |->
                 fsz_link_inode(
                     [FszPut(m, inode, [t EXCEPT !.checksum = crc32_calc(FszInodeRegion(t))])
                         EXCEPT !.len = m.len + m.grow],
                     inode, path, 1, 0)])])])])])

\* the region sb->magic .. sb->magic + 508 of the superblock
FszSuperRegion(sb) == <<sb.numsec, sb.freesec, sb.rootdirfid>>

\* void fsz_open(gpt_t *gpt_entry): n is the number of 512-byte sectors of the
\* partition, 0 for an initrd (gpt_entry is NULL).
fsz_open(n) ==
    With([a \in {fsz_add_inode(
                    [err |-> "ok", ret |-> 0, grow |-> 0, len |-> FSZ_SECSIZE,
                     max |-> n * 512, rootdirfid |-> 0,
                     secs |-> (0 :> [kind |-> "super", checksum |-> <<"zero">>,
                                     numsec |-> (n * 512) \div FSZ_SECSIZE,
                                     freesec |-> 0, rootdirfid |-> 0])],
                    "dir:", "fs-root", 0)} |->
        IF a.err # "ok" THEN a
        ELSE With([b \in {[FszPut(a, 0, [a.secs[0] EXCEPT !.rootdirfid = a.ret])
                              EXCEPT !.rootdirfid = a.ret]} |->
             \* ((FSZ_Inode*)(fs_base+fsz_secsize))->numlinks++
             FszPut(b, 1, [FszInode(b, 1) EXCEPT !.numlinks = @ + 1])])])

\* void fsz_add(struct stat *st, char *name, unsigned char *content, int size)
fsz_add(f, type, path, size) ==
    IF f.err # "ok" THEN f
    ELSE IF path[Len(path)] \in {Dot, DotDot} THEN f
    ELSE IF type = "dir"
    THEN With([a \in {fsz_add_inode(f, "dir:", "", 0)} |->
            fsz_link_inode(a, a.ret, path, 1, 0)])
    ELSE IF type = "reg" THEN fsz_add_file(f, path, size)
    ELSE IF type = "lnk"
    THEN With([a \in {fsz_add_inode(f, "lnk:", "", size)} |->
            fsz_link_inode(a, a.ret, path, 1, 0)])
    ELSE f

\* void fsz_close()
fsz_close(f) ==
    IF f.err # "ok" THEN f
    ELSE With([sb \in {[f.secs[0] EXCEPT
                           !.numsec = IF @ = 0 THEN f.len \div FSZ_SECSIZE ELSE @,
                           !.freesec = f.len \div FSZ_SECSIZE]} |->
        FszPut(f, 0, [sb EXCEPT !.checksum = crc32_calc(FszSuperRegion(sb))])])

(***************************************************************************)
(* echfs (src/utilies/mkbootimg/ech.c).                                    *)
(***************************************************************************)
\* sizeof(ech_entry_t), char name[201]
EchEntSize == 256
EchNameSize == 201
EchBlock == 512
\* the blocks before the allocation table
EchReserved == 16
\* 0xffffffffffffffff: the root as parent, the end of a chain
EchEnd == 0 - 1
\* 0xfffffffffffffff0: a block that holds no file data
EchUsed == 0 - 16

EchIdle == [err |-> "idle"]
EchFail(e, what) == [e EXCEPT !.err = what]

\* void ech_open(gpt_entry) for a partition of n sectors, 0 for an initrd
\* (gpt_entry is NULL). The fields from len on are what ech_close leaves.
ech_open(n) ==
    LET e == [err |-> "ok", numblk |-> n, maxents |-> (((n * 5) \div 100) * EchBlock) \div EchEntSize,
              ents |-> <<>>, size |-> 0,
              len |-> 0, offs |-> 0, dirblk |-> 0, tabblk |-> 0, table |-> <<>>, dir |-> <<>>,
              dataat |-> 0, datalen |-> 0, maxw |-> 0, closed |-> FALSE]
    IN  IF n = 0 THEN e
        ELSE IF n - 1 < 1 THEN EchFail(EchIdle, "nosize")
        ELSE e

\* The parent search of ech_add (lines 87-94) from entry i on (counted from
\* 1); s holds parent and the index ci of the component fn..end. An entry that
\* matches the last component moves fn behind the end of the name.
RECURSIVE EchFindParent(_, _, _, _)
EchFindParent(e, path, s, i) ==
    IF i > Len(e.ents) THEN s
    ELSE IF e.ents[i].parent_id = s.parent /\ e.ents[i].name = path[s.ci]
    THEN IF s.ci = Len(path) THEN [s EXCEPT !.out = "undefined"]
         ELSE IF s.ci + 1 = Len(path)
         THEN [s EXCEPT !.parent = e.ents[i].payload, !.ci = s.ci + 1]
         ELSE EchFindParent(e, path, [s EXCEPT !.parent = e.ents[i].payload, !.ci = s.ci + 1],
                            i + 1)
    ELSE EchFindParent(e, path, s, i + 1)

\* void ech_add(st, name, content, size)
ech_add(e, type, path, size) ==
    IF e.err # "ok" THEN e
    ELSE IF path[Len(path)] \in {Dot, DotDot} THEN e
    ELSE IF type \notin {"reg", "dir"} THEN e
    ELSE With([s \in {EchFindParent(e, path, [parent |-> EchEnd, ci |-> 1, out |-> "add"], 1)} |->
         IF s.out = "undefined" \/ Len(path[s.ci]) >= EchNameSize THEN EchFail(e, "undefined")
         ELSE IF e.numblk # 0 /\ e.numblk * EchBlock < e.size + size THEN EchFail(e, "toobig")
         ELSE IF e.maxents # 0 /\ Len(e.ents) + 1 >= e.maxents THEN EchFail(e, "toomany")
         ELSE IF type = "dir"
         THEN [e EXCEPT !.ents = Append(@, [parent_id |-> s.parent, type |-> 1,
                                            name |-> path[s.ci],
                                            payload |-> Len(e.ents) + 1, size |-> 0])]
         ELSE [e EXCEPT !.ents = Append(@, [parent_id |-> s.parent, type |-> 0,
                                            name |-> path[s.ci],
                                            payload |-> e.size \div EchBlock, size |-> size]),
                        !.size = @ + CeilDiv(size, EchBlock) * EchBlock]])

\* The allocation-table entries that the loop of lines 160-173 writes for the
\* entries from i on: a chain per file with content.
RECURSIVE EchChains(_, _, _)
EchChains(ents, offs, i) ==
    IF i > Len(ents) THEN <<>>
    ELSE IF ents[i].type = 0 /\ ents[i].size # 0
    THEN LET first == ents[i].payload + offs
             n == CeilDiv(ents[i].size, EchBlock)
         IN  [k \in 1..n |-> IF k = n THEN EchEnd ELSE first + k]
                 \o EchChains(ents, offs, i + 1)
    ELSE EchChains(ents, offs, i + 1)

\* void ech_close(): len is fs_len; table holds the allocation-table entries in
\* the order of their index (entry x is table[x + 1]); dir the directory
\* entries as written; maxw the end of the bytes written.
ech_close(e) ==
    IF e.err # "ok" THEN e
    ELSE LET initrd == e.numblk = 0
             maxents == IF initrd THEN Len(e.ents) ELSE e.maxents
             nb0 == EchReserved + (Len(e.ents) * EchEntSize + (EchBlock - 1) + e.size) \div EchBlock
             numblk == IF initrd THEN nb0 + (nb0 * 8 + (EchBlock - 1)) \div EchBlock ELSE e.numblk
             dirblk == (maxents * EchEntSize + (EchBlock - 1)) \div EchBlock
             tabblk == (numblk * 8 + (EchBlock - 1)) \div EchBlock
             offs == EchReserved + dirblk + tabblk
             table == [i \in 1..offs |-> EchUsed] \o EchChains(e.ents, offs, 1)
             dirat == (EchReserved + tabblk) * EchBlock
             dir == [i \in DOMAIN e.ents |->
                       IF e.ents[i].type # 0 THEN e.ents[i]
                       ELSE IF e.ents[i].size = 0 THEN [e.ents[i] EXCEPT !.payload = EchEnd]
                       ELSE [e.ents[i] EXCEPT !.payload = @ + offs]]
             maxw == Max(Max(EchReserved * EchBlock + Len(table) * 8,
                             IF e.ents = <<>> THEN 0 ELSE dirat + Len(e.ents) * EchEntSize),
                         IF e.size = 0 THEN 0 ELSE offs * EchBlock + e.size)
         IN  [e EXCEPT !.err = IF maxw > numblk * EchBlock THEN "undefined" ELSE "ok",
                       !.numblk = numblk, !.maxents = maxents,
                       !.len = numblk * EchBlock, !.offs = offs, !.dirblk = dirblk,
                       !.tabblk = tabblk, !.table = table, !.dir = dir,
                       !.dataat = offs * EchBlock, !.datalen = e.size,
                       !.maxw = maxw, !.closed = TRUE]

(***************************************************************************)
(* The driver (src/utilies/mkbootimg/img.c lines 85-101 for a partition,   *)
(* src/utilies/mkbootimg/main.c lines 503-507 for an initrd): it resets    *)
(* the buffer, calls open once, add once per entry of the directory tree   *)
(* (parsedir), and close once. A fatal error ends the process. call is the *)
(* call made last.                                                         *)
(***************************************************************************)
ExtSectors == {32, 56, 64, 96, 256, 320000, 524288}
FatSectors == {FatMinClusters - 1, FatMinClusters, Fat32Clusters}
LenSectors == {32, 33, 34, 42, 43, 64, 100}
MnxSectors == {56, 64, 72, 128}
ArcSectors == {0, 1, 64}

Names == {NameA, NameB}
NoCall == [op |-> "none", type |-> "none", path |-> <<>>, size |-> 0]
OpenCall == [NoCall EXCEPT !.op = "open"]
CloseCall == [NoCall EXCEPT !.op = "close"]
AddCall(path, in) == [op |-> "add", type |-> in.type, path |-> path, size |-> in.size]

\* gpt_maketable and img_write for a whole disk, and the VFS server, are not
\* running while one builder is explored.
GptIdle == [state |-> "idle"]
VfsIdle == [state |-> "idle"]

\* The state before open of format f on a partition of one of the sizes S; b
\* is the number of entries the tree may hold.
Start(f, S, b) ==
    /\ fmt = f
    /\ nsec \in S
    /\ phase = "start"
    /\ err = "ok"
    /\ fs_len = 0
    /\ budget = b
    /\ added = <<>>
    /\ call = NoCall
    /\ ext = ExtIdle
    /\ fat = FatIdle
    /\ len = LenIdle
    /\ mnx = MnxIdle
    /\ arc = ArcIdle
    /\ fsz = FszIdle
    /\ ech = EchIdle
    /\ out = <<>>
    /\ gpt = GptIdle
    /\ vfs = VfsIdle

\* What a builder call leaves behind in the driver: a fatal error ends the run.
After(b) == IF b.err = "ok" THEN "opened" ELSE IF b.err = "undefined" THEN "undefined" ELSE "fatal"
\* The entries handed to add so far, "." left out: it names no new entry. id
\* is the unit the builder took for the entry (0 when it took none).
Entry(path, in, id) ==
    IF path[Len(path)] = Dot THEN added
    ELSE Append(added, [path |-> path, type |-> in.type, size |-> in.size, id |-> id])
\* the first and the last unit appended to the list of units handed out
FirstNew(old, new) ==
    IF old.err = "ok" /\ new.err = "ok" /\ Len(new.allocs) > Len(old.allocs)
    THEN new.allocs[Len(old.allocs) + 1] ELSE 0
LastNew(old, new) ==
    IF old.err = "ok" /\ new.err = "ok" /\ Len(new.allocs) > Len(old.allocs)
    THEN new.allocs[Len(new.allocs)] ELSE 0
LastNewInode(old, new) ==
    IF old.err = "ok" /\ new.err = "ok" /\ Len(new.iallocs) > Len(old.iallocs)
    THEN new.iallocs[Len(new.iallocs)] ELSE 0
\* rd_open, rd_add and rd_close are called in this order (img.c lines 99-101)
CanOpen == phase = "start"
\* Faulty variant of CanAdd: entries are still handed over after close.
CanAddLate == phase \in {"opened", "closed"} /\ budget > 0
CanAdd == phase = "opened" /\ budget > 0
CanClose == phase = "opened"

OpenExt ==
    /\ fmt = "ext2" /\ CanOpen
    /\ ext' = ext_open(nsec)
    /\ phase' = After(ext')
    /\ err' = ext'.err
    /\ fs_len' = IF (nsec * 512) \div SECSIZE < 8 THEN fs_len ELSE ((nsec * 512) \div SECSIZE) * SECSIZE
    /\ call' = OpenCall
    /\ UNCHANGED <<fmt, nsec, budget, added, fat, len, mnx, arc, fsz, ech, out, gpt, vfs>>

ExtInputs ==
    {[type |-> "reg", st_size |-> 0, size |-> 0, rdev |-> 0],
     [type |-> "reg", st_size |-> 5000, size |-> 5000, rdev |-> 0],
     [type |-> "dir", st_size |-> 4096, size |-> 0, rdev |-> 0],
     [type |-> "dir", st_size |-> 0, size |-> 0, rdev |-> 0],
     [type |-> "lnk", st_size |-> 3, size |-> 3, rdev |-> 0],
     [type |-> "lnk", st_size |-> SECSIZE, size |-> SECSIZE, rdev |-> 0],
     [type |-> "chr", st_size |-> 0, size |-> 0, rdev |-> 1025],
     [type |-> "fifo", st_size |-> 0, size |-> 0, rdev |-> 0]}

AddExt ==
    /\ fmt = "ext2" /\ CanAdd
    /\ \E in \in ExtInputs, path \in NextPaths(Names \cup {Dot}) :
          /\ ext' = ext_add(ext, in.type, in.st_size, in.rdev, path, in.size)
          /\ added' = Entry(path, in, LastNewInode(ext, ext'))
          /\ call' = AddCall(path, in)
    /\ phase' = After(ext')
    /\ err' = ext'.err
    /\ budget' = budget - 1
    /\ UNCHANGED <<fmt, nsec, fs_len, fat, len, mnx, arc, fsz, ech, out, gpt, vfs>>

CloseExt ==
    /\ fmt = "ext2" /\ CanClose
    /\ ext' = ext_close(ext, fs_len)
    /\ phase' = "closed"
    /\ call' = CloseCall
    /\ UNCHANGED <<fmt, nsec, err, fs_len, budget, added, fat, len, mnx, arc, fsz, ech, out, gpt, vfs>>

OpenFat ==
    /\ fmt = "fat" /\ CanOpen
    /\ fat' = fat_open(nsec)
    /\ phase' = After(fat')
    /\ err' = fat'.err
    /\ fs_len' = IF nsec < FatMinClusters THEN fs_len ELSE nsec * 512
    /\ call' = OpenCall
    /\ UNCHANGED <<fmt, nsec, budget, added, ext, len, mnx, arc, fsz, ech, out, gpt, vfs>>

\* Content sizes offered: empty, within one cluster, two clusters, and the
\* largest size the check of line 276 lets a first file pass.
FatSizes == {0, 100, 700, fs_len - 3 * FatBpc - 1}
FatInputs ==
    {[type |-> "reg", size |-> z] : z \in FatSizes}
        \cup {[type |-> "dir", size |-> 0], [type |-> "lnk", size |-> 3],
              [type |-> "fifo", size |-> 0]}

AddFat ==
    /\ fmt = "fat" /\ CanAdd
    /\ \E in \in FatInputs, path \in NextPaths(Names \cup {Dot, LongName, Name64}) :
          /\ fat' = fat_add(fat, in.type, path, in.size)
          /\ added' = Entry(path, in, IF in.type = "dir" THEN LastNew(fat, fat') ELSE 0)
          /\ call' = AddCall(path, in)
    /\ phase' = After(fat')
    /\ err' = fat'.err
    /\ budget' = budget - 1
    /\ UNCHANGED <<fmt, nsec, fs_len, ext, len, mnx, arc, fsz, ech, out, gpt, vfs>>

CloseFat ==
    /\ fmt = "fat" /\ CanClose
    /\ fat' = fat_close(fat)
    /\ phase' = "closed"
    /\ call' = CloseCall
    /\ UNCHANGED <<fmt, nsec, err, fs_len, budget, added, ext, len, mnx, arc, fsz, ech, out, gpt, vfs>>

OpenLean ==
    /\ fmt = "lean" /\ CanOpen
    /\ len' = len_open(nsec)
    /\ phase' = After(len')
    /\ err' = len'.err
    /\ fs_len' = IF nsec < LenPrimarySuper + LEAN_BITMAPSIZE THEN fs_len ELSE nsec * LenSector
    /\ call' = OpenCall
    /\ UNCHANGED <<fmt, nsec, budget, added, ext, fat, mnx, arc, fsz, ech, out, gpt, vfs>>

LenInputs ==
    {[type |-> "reg", size |-> 0], [type |-> "reg", size |-> 600],
     [type |-> "dir", size |-> 0], [type |-> "lnk", size |-> 3],
     [type |-> "fifo", size |-> 0]}

AddLean ==
    /\ fmt = "lean" /\ CanAdd
    /\ \E in \in LenInputs, path \in NextPaths(Names \cup {Dot, LongName}) :
          /\ len' = len_add(len, in.type, path, in.size)
          /\ added' = Entry(path, in, FirstNew(len, len'))
          /\ call' = AddCall(path, in)
    /\ phase' = After(len')
    /\ err' = len'.err
    /\ budget' = budget - 1
    /\ UNCHANGED <<fmt, nsec, fs_len, ext, fat, mnx, arc, fsz, ech, out, gpt, vfs>>

CloseLean ==
    /\ fmt = "lean" /\ CanClose
    /\ len' = len_close(len, fs_len)
    /\ phase' = "closed"
    /\ call' = CloseCall
    /\ UNCHANGED <<fmt, nsec, err, fs_len, budget, added, ext, fat, mnx, arc, fsz, ech, out, gpt, vfs>>

OpenMnx ==
    /\ fmt = "minix" /\ CanOpen
    /\ mnx' = mnx_open(nsec)
    /\ phase' = After(mnx')
    /\ err' = mnx'.err
    /\ fs_len' = IF (nsec * 512) \div DEFAULT_BLOCK_SIZE < MnxMinBlocks THEN fs_len
                 ELSE ((nsec * 512) \div DEFAULT_BLOCK_SIZE) * DEFAULT_BLOCK_SIZE
    /\ call' = OpenCall
    /\ UNCHANGED <<fmt, nsec, budget, added, ext, fat, len, arc, fsz, ech, out, gpt, vfs>>

MnxInputs ==
    {[type |-> "reg", st_size |-> 0, size |-> 0, rdev |-> 0],
     [type |-> "reg", st_size |-> 100, size |-> 100, rdev |-> 0],
     [type |-> "reg", st_size |-> 8192, size |-> 8192, rdev |-> 0],
     [type |-> "dir", st_size |-> 4096, size |-> 0, rdev |-> 0],
     [type |-> "lnk", st_size |-> 3, size |-> 3, rdev |-> 0],
     [type |-> "chr", st_size |-> 0, size |-> 0, rdev |-> 1025],
     [type |-> "fifo", st_size |-> 0, size |-> 0, rdev |-> 0]}

AddMnx ==
    /\ fmt = "minix" /\ CanAdd
    /\ \E in \in MnxInputs, path \in NextPaths(Names \cup {Dot}), fault \in BOOLEAN :
          /\ mnx' = mnx_add(mnx, in.type, in.st_size, in.rdev, path, in.size, fault)
          /\ added' = Entry(path, in, LastNewInode(mnx, mnx'))
          /\ call' = AddCall(path, in)
    /\ phase' = After(mnx')
    /\ err' = mnx'.err
    /\ budget' = budget - 1
    /\ UNCHANGED <<fmt, nsec, fs_len, ext, fat, len, arc, fsz, ech, out, gpt, vfs>>

CloseMnx ==
    /\ fmt = "minix" /\ CanClose
    /\ mnx' = mnx_close(mnx)
    /\ phase' = "closed"
    /\ call' = CloseCall
    /\ UNCHANGED <<fmt, nsec, err, fs_len, budget, added, ext, fat, len, arc, fsz, ech, out, gpt, vfs>>

\* "a.txt"
NameATxt == <<97, 46, 116, 120, 116>>
\* Partition sizes offered to FS/Z in 512-byte sectors: 0 is an initrd.
FszSectors == {0, 8, 24, 40, 64}
\* Content sizes: inline, one sector, a sector directory of two sectors, and a
\* size that is no multiple of the sector size.
FszInputs ==
    {[type |-> "reg", size |-> 0], [type |-> "reg", size |-> 100],
     [type |-> "reg", size |-> 4000], [type |-> "reg", size |-> 2 * FSZ_SECSIZE],
     [type |-> "reg", size |-> 5000],
     [type |-> "dir", size |-> 0], [type |-> "lnk", size |-> 3],
     [type |-> "fifo", size |-> 0]}

\* Partition sizes offered to echfs in 512-byte sectors: 0 is an initrd.
EchSectors == {0, 1, 2, 20, 64, 100}
\* Content sizes: none, two blocks, and 47 blocks.
EchInputs ==
    {[type |-> "reg", size |-> 0], [type |-> "reg", size |-> 600],
     [type |-> "reg", size |-> 47 * EchBlock],
     [type |-> "dir", size |-> 0], [type |-> "lnk", size |-> 3]}

OpenEch ==
    /\ fmt = "echfs" /\ CanOpen
    /\ ech' = ech_open(nsec)
    /\ phase' = After(ech')
    /\ err' = ech'.err
    /\ call' = OpenCall
    /\ UNCHANGED <<fmt, nsec, fs_len, budget, added, ext, fat, len, mnx, arc, fsz, out, gpt, vfs>>

AddEch ==
    /\ fmt = "echfs" /\ CanAdd
    /\ \E in \in EchInputs, path \in NextPaths(Names \cup {Dot}) :
          /\ ech' = ech_add(ech, in.type, path, in.size)
          /\ added' = Entry(path, in, IF ech'.err = "ok" THEN Len(ech'.ents) ELSE 0)
          /\ call' = AddCall(path, in)
    /\ phase' = After(ech')
    /\ err' = ech'.err
    /\ budget' = budget - 1
    /\ UNCHANGED <<fmt, nsec, fs_len, ext, fat, len, mnx, arc, fsz, out, gpt, vfs>>

CloseEch ==
    /\ fmt = "echfs" /\ CanClose
    /\ ech' = ech_close(ech)
    /\ phase' = IF ech'.err = "undefined" THEN "undefined" ELSE "closed"
    /\ err' = ech'.err
    /\ fs_len' = ech'.len
    /\ call' = CloseCall
    /\ UNCHANGED <<fmt, nsec, budget, added, ext, fat, len, mnx, arc, fsz, out, gpt, vfs>>

OpenFsz ==
    /\ fmt = "fsz" /\ CanOpen
    /\ fsz' = fsz_open(nsec)
    /\ phase' = After(fsz')
    /\ err' = fsz'.err
    /\ fs_len' = fsz'.len
    /\ call' = OpenCall
    /\ UNCHANGED <<fmt, nsec, budget, added, ext, fat, len, mnx, arc, ech, out, gpt, vfs>>

AddFsz ==
    /\ fmt = "fsz" /\ CanAdd
    /\ \E in \in FszInputs, path \in NextPaths({NameA, NameB, NameATxt, Dot}) :
          /\ fsz' = fsz_add(fsz, in.type, path, in.size)
          /\ added' = Entry(path, in, IF fsz'.err = "ok" /\ fsz'.len > fsz.len
                                      THEN fsz.len \div FSZ_SECSIZE ELSE 0)
          /\ call' = AddCall(path, in)
    /\ phase' = After(fsz')
    /\ err' = fsz'.err
    /\ fs_len' = fsz'.len
    /\ budget' = budget - 1
    /\ UNCHANGED <<fmt, nsec, ext, fat, len, mnx, arc, ech, out, gpt, vfs>>

CloseFsz ==
    /\ fmt = "fsz" /\ CanClose
    /\ fsz' = fsz_close(fsz)
    /\ phase' = "closed"
    /\ call' = CloseCall
    /\ UNCHANGED <<fmt, nsec, err, fs_len, budget, added, ext, fat, len, mnx, arc, ech, out, gpt, vfs>>

\* gpt_parts[k] of a partition of nsec sectors: the size in bytes, rounded up
\* to disk_align, whose low nine bits are clear (gpt.c lines 58 and 103)
GptParts == nsec * 512
\* The GPT entry gpt_maketable writes for a partition of parts bytes that
\* follows LBA l (gpt.c lines 200-203): start LBA and end LBA.
GptEntry(l, parts) == [start |-> l + 1, last |-> l + parts \div 512]
\* the LBA the ESP ends at in the images explored: es + esiz - 1 (gpt.c line 166)
GptEspLast == 128 + 64 - 1
\* Faulty variant of img_fits: every buffer is taken to fit.
img_fits_always(parts, length) == TRUE
\* !(gpt_parts[k] < (unsigned long int)fs_len) (img.c line 116)
img_fits(parts, length) == ~(parts < length)
\* img_write up to the loop over the partitions (img.c lines 44-53): the
\* target file is opened and the primary GPT and the ESP are written to it.
\* out lists what the target file has received.
OpenImg ==
    /\ phase = "img"
    /\ phase' = "start"
    /\ out' = out \o <<[what |-> "gpt", size |-> 0], [what |-> "esp", size |-> 0]>>
    /\ UNCHANGED <<fmt, nsec, err, fs_len, budget, added, call, ext, fat, len, mnx, arc, fsz,
                   ech, gpt, vfs>>

\* No entry of fsdrv has the name of the partition's driver or type: rd_add
\* stays NULL, the valid names are listed and the build ends (img.c lines
\* 93-112).
NoDriver ==
    /\ fmt = "unknown" /\ phase = "start"
    /\ phase' = "fatal"
    /\ err' = "type"
    /\ UNCHANGED <<fmt, nsec, fs_len, budget, added, call, ext, fat, len, mnx, arc, fsz, ech,
                   out, gpt, vfs>>

\* img_write for one partition built from a directory (img.c lines 115-123),
\* after rd_close: the buffer is written when there is one and it fits; call
\* records the bytes written.
WriteImg ==
    /\ phase = "closed"
    /\ IF fs_len # 0 /\ ~img_fits(GptParts, fs_len)
       THEN /\ phase' = "fatal"
            /\ err' = "partsize"
            /\ call' = [NoCall EXCEPT !.op = "write"]
            /\ out' = out
       ELSE /\ phase' = "written"
            /\ err' = err
            /\ call' = [NoCall EXCEPT !.op = "write", !.size = fs_len]
            /\ out' = IF fs_len # 0 THEN Append(out, [what |-> "part", size |-> fs_len])
                      ELSE out
    /\ UNCHANGED <<fmt, nsec, fs_len, budget, added, ext, fat, len, mnx, arc, fsz, ech, gpt, vfs>>

ArcInputs ==
    {[type |-> "reg", size |-> 0], [type |-> "reg", size |-> 600],
     [type |-> "dir", size |-> 0], [type |-> "lnk", size |-> 3],
     [type |-> "fifo", size |-> 0]}

\* What an archive call leaves behind in the driver.
ArcDone(op) ==
    /\ phase' = IF op = "close" THEN "closed" ELSE After(arc')
    /\ err' = IF op = "close" THEN err ELSE arc'.err
    /\ fs_len' = arc'.len
    /\ budget' = IF op = "add" THEN budget - 1 ELSE budget
    /\ UNCHANGED <<fmt, nsec, ext, fat, len, mnx, fsz, ech, out, gpt, vfs>>

OpenCpio ==
    /\ fmt = "cpio" /\ CanOpen
    /\ arc' = cpio_open(arc, nsec)
    /\ call' = OpenCall
    /\ added' = added
    /\ ArcDone("open")

AddCpio ==
    /\ fmt = "cpio" /\ CanAdd
    /\ \E in \in ArcInputs, path \in NextPaths(Names \cup {Dot}) :
          /\ arc' = cpio_add(arc, in.type, path, in.size)
          /\ added' = Entry(path, in, 0)
          /\ call' = AddCall(path, in)
    /\ ArcDone("add")

CloseCpio ==
    /\ fmt = "cpio" /\ CanClose
    /\ arc' = cpio_close(arc)
    /\ call' = CloseCall
    /\ added' = added
    /\ ArcDone("close")

OpenTar ==
    /\ fmt = "tar" /\ CanOpen
    /\ arc' = tar_open(arc, nsec)
    /\ call' = OpenCall
    /\ added' = added
    /\ ArcDone("open")

AddTar ==
    /\ fmt = "tar" /\ CanAdd
    /\ \E in \in ArcInputs, path \in NextPaths(Names \cup {Dot}) :
          /\ arc' = tar_add(arc, in.type, path, in.size)
          /\ added' = Entry(path, in, 0)
          /\ call' = AddCall(path, in)
    /\ ArcDone("add")

CloseTar ==
    /\ fmt = "tar" /\ CanClose
    /\ arc' = tar_close(arc)
    /\ call' = CloseCall
    /\ added' = added
    /\ ArcDone("close")

OpenJamesm ==
    /\ fmt = "jamesm" /\ CanOpen
    /\ arc' = jamesm_open(arc, nsec)
    /\ call' = OpenCall
    /\ added' = added
    /\ ArcDone("open")

AddJamesm ==
    /\ fmt = "jamesm" /\ CanAdd
    /\ \E in \in ArcInputs, path \in NextPaths(Names \cup {Dot}) :
          /\ arc' = jamesm_add(arc, in.type, path, in.size)
          /\ added' = Entry(path, in, 0)
          /\ call' = AddCall(path, in)
    /\ ArcDone("add")

CloseJamesm ==
    /\ fmt = "jamesm" /\ CanClose
    /\ arc' = jamesm_close(arc)
    /\ call' = CloseCall
    /\ added' = added
    /\ ArcDone("close")

InitExt == Start("ext2", ExtSectors, MaxAdds)
NextExt == OpenExt \/ AddExt \/ CloseExt
SpecExt == InitExt /\ [][NextExt]_vars

InitFat == Start("fat", FatSectors, MaxAdds)
NextFat == OpenFat \/ AddFat \/ CloseFat
SpecFat == InitFat /\ [][NextFat]_vars

InitLean == Start("lean", LenSectors, MaxAdds)
NextLean == OpenLean \/ AddLean \/ CloseLean
SpecLean == InitLean /\ [][NextLean]_vars

InitMnx == Start("minix", MnxSectors, MaxAdds)
NextMnx == OpenMnx \/ AddMnx \/ CloseMnx
SpecMnx == InitMnx /\ [][NextMnx]_vars

\* A large directory: the build of a tree whose root holds many empty files.
\* The partitions are large enough for the inodes; the walk has delivered k
\* files named "f00", "f01", ... before the entries added next.
MnxDirSectors == {2048, 4096}
MnxFill == {NR_DIR_ENTRIES - 3, NR_DIR_ENTRIES - 2}
FillName(i) == <<102, 48 + i \div 10, 48 + (i % 10)>>
FillInput == [type |-> "reg", st_size |-> 0, size |-> 0, rdev |-> 0]
\* the builder m after the add of the files i..k
RECURSIVE MnxFillFrom(_, _, _)
MnxFillFrom(m, i, k) ==
    IF i > k THEN m
    ELSE With([m1 \in {mnx_add(m, "reg", 0, 0, <<FillName(i)>>, 0, FALSE)} |->
              MnxFillFrom(m1, i + 1, k)])
\* the builder after open and the add of the first k files
MnxFilled(n, k) == MnxFillFrom(mnx_open(n), 1, k)
InitMnxDir ==
    /\ fmt = "minix"
    /\ nsec \in MnxDirSectors
    /\ phase = "opened"
    /\ err = "ok"
    /\ fs_len = ((nsec * 512) \div DEFAULT_BLOCK_SIZE) * DEFAULT_BLOCK_SIZE
    /\ budget = MaxAdds
    /\ \E k \in MnxFill :
          /\ mnx = MnxFilled(nsec, k)
          /\ added = [i \in 1..k |-> [path |-> <<FillName(i)>>, type |-> "reg", size |-> 0,
                                      id |-> i + 1]]
          /\ call = AddCall(<<FillName(k)>>, FillInput)
    /\ ext = ExtIdle
    /\ fat = FatIdle
    /\ len = LenIdle
    /\ arc = ArcIdle
    /\ fsz = FszIdle
    /\ ech = EchIdle
    /\ out = <<>>
    /\ gpt = GptIdle
    /\ vfs = VfsIdle
NextMnxDir == AddMnx \/ CloseMnx
SpecMnxDir == InitMnxDir /\ [][NextMnxDir]_vars

\* LeanFS next to the end of the first band: the tree already holds one
\* regular file "f01" that fills the band up to a few sectors before its last.
LenBandSectors == {4200}
LenFill == {4047, 4049, 4052}
LenFilled(n, k) == len_add(len_open(n), "reg", <<FillName(1)>>, k * LenSector)
InitLeanBand ==
    /\ fmt = "lean"
    /\ nsec \in LenBandSectors
    /\ phase = "opened"
    /\ err = "ok"
    /\ fs_len = nsec * LenSector
    /\ budget = MaxAddsAll
    /\ \E k \in LenFill :
          /\ len = LenFilled(nsec, k)
          /\ added = <<[path |-> <<FillName(1)>>, type |-> "reg", size |-> k * LenSector,
                        id |-> len.allocs[LenPrealloc + 2]]>>
          /\ call = AddCall(<<FillName(1)>>, [type |-> "reg", size |-> k * LenSector])
    /\ ext = ExtIdle
    /\ fat = FatIdle
    /\ mnx = MnxIdle
    /\ arc = ArcIdle
    /\ fsz = FszIdle
    /\ ech = EchIdle
    /\ out = <<>>
    /\ gpt = GptIdle
    /\ vfs = VfsIdle
NextLeanBand == AddLean \/ CloseLean
SpecLeanBand == InitLeanBand /\ [][NextLeanBand]_vars

\* LeanFS with a root directory next to full: the tree already holds k empty
\* regular files with names of LongLen characters, "f01xxx...", "f02xxx...".
LenDirSectors == {100}
LenDirFill == {17, 18}
FillLong(i) == FillName(i) \o SubSeq(LongName, 4, LongLen)
RECURSIVE LenFillFrom(_, _, _)
LenFillFrom(l, i, k) ==
    IF i > k THEN l
    ELSE With([l1 \in {len_add(l, "reg", <<FillLong(i)>>, 0)} |-> LenFillFrom(l1, i + 1, k)])
LenDirFilled(n, k) == LenFillFrom(len_open(n), 1, k)
InitLeanDir ==
    /\ fmt = "lean"
    /\ nsec \in LenDirSectors
    /\ phase = "opened"
    /\ err = "ok"
    /\ fs_len = nsec * LenSector
    /\ budget = MaxAddsAll
    /\ \E k \in LenDirFill :
          /\ len = LenDirFilled(nsec, k)
          /\ added = [i \in 1..k |-> [path |-> <<FillLong(i)>>, type |-> "reg", size |-> 0,
                                      id |-> len.allocs[LenPrealloc + 1 + i]]]
          /\ call = AddCall(<<FillLong(k)>>, [type |-> "reg", size |-> 0])
    /\ ext = ExtIdle
    /\ fat = FatIdle
    /\ mnx = MnxIdle
    /\ arc = ArcIdle
    /\ fsz = FszIdle
    /\ ech = EchIdle
    /\ out = <<>>
    /\ gpt = GptIdle
    /\ vfs = VfsIdle
NextLeanDir == AddLean \/ CloseLean
SpecLeanDir == InitLeanDir /\ [][NextLeanDir]_vars

\* ext2 and Minix3 with files that need the indirect blocks: 7, 8, 12 and 13
\* blocks, and a file that reaches the double indirect block of both.
BigExtSectors == {320000}
BigMnxSectors == {16384}
BigBlocks == {7, 8, 12, 13, 1038}
BigInputs ==
    {[type |-> "reg", st_size |-> k * SECSIZE, size |-> k * SECSIZE, rdev |-> 0] :
        k \in BigBlocks}
AddExtBig ==
    /\ fmt = "ext2" /\ CanAdd
    /\ \E in \in BigInputs, path \in NextPaths(Names) :
          /\ ext' = ext_add(ext, in.type, in.st_size, in.rdev, path, in.size)
          /\ added' = Entry(path, in, LastNewInode(ext, ext'))
          /\ call' = AddCall(path, in)
    /\ phase' = After(ext')
    /\ err' = ext'.err
    /\ budget' = budget - 1
    /\ UNCHANGED <<fmt, nsec, fs_len, fat, len, mnx, arc, fsz, ech, out, gpt, vfs>>
AddMnxBig ==
    /\ fmt = "minix" /\ CanAdd
    /\ \E in \in BigInputs, path \in NextPaths(Names) :
          /\ mnx' = mnx_add(mnx, in.type, in.st_size, in.rdev, path, in.size, FALSE)
          /\ added' = Entry(path, in, LastNewInode(mnx, mnx'))
          /\ call' = AddCall(path, in)
    /\ phase' = After(mnx')
    /\ err' = mnx'.err
    /\ budget' = budget - 1
    /\ UNCHANGED <<fmt, nsec, fs_len, ext, fat, len, arc, fsz, ech, out, gpt, vfs>>
InitBig ==
    \/ Start("ext2", BigExtSectors, MaxAddsAll)
    \/ Start("minix", BigMnxSectors, MaxAddsAll)
NextBig == OpenExt \/ AddExtBig \/ CloseExt \/ OpenMnx \/ AddMnxBig \/ CloseMnx
SpecBig == InitBig /\ [][NextBig]_vars

\* FS/Z with content sizes on both sides of every limit of the data mapping:
\* 3072 bytes, one sector, 192 sectors and 256 sectors; three sectors is the
\* size of a first file whose sectors follow its inode.
FszMapSectors == {0, 4096}
FszMapInputs ==
    {[type |-> "reg", size |-> z] :
        z \in {FSZ_SECSIZE - FszInodeHead, FSZ_SECSIZE - FszInodeHead + 1,
               FSZ_SECSIZE, FSZ_SECSIZE + 1, 2 * FSZ_SECSIZE, 3 * FSZ_SECSIZE,
               192 * FSZ_SECSIZE, 192 * FSZ_SECSIZE + 1,
               256 * FSZ_SECSIZE, 256 * FSZ_SECSIZE + 1}}
        \cup {[type |-> "dir", size |-> 0]}
AddFszMap ==
    /\ fmt = "fsz" /\ CanAdd
    /\ \E in \in FszMapInputs, path \in NextPaths(Names) :
          /\ fsz' = fsz_add(fsz, in.type, path, in.size)
          /\ added' = Entry(path, in, IF fsz'.err = "ok" /\ fsz'.len > fsz.len
                                      THEN fsz.len \div FSZ_SECSIZE ELSE 0)
          /\ call' = AddCall(path, in)
    /\ phase' = After(fsz')
    /\ err' = fsz'.err
    /\ fs_len' = fsz'.len
    /\ budget' = budget - 1
    /\ UNCHANGED <<fmt, nsec, ext, fat, len, mnx, arc, ech, out, gpt, vfs>>
InitFszMap == Start("fsz", FszMapSectors, MaxAddsAll)
NextFszMap == OpenFsz \/ AddFszMap \/ CloseFsz
SpecFszMap == InitFszMap /\ [][NextFszMap]_vars

\* FAT32 on the smallest partition that is formatted as FAT32, with 503
\* sectors per FAT copy (64384 entries): the tree already holds one regular
\* file "f01" whose clusters end a few clusters before cluster 64384.
FatBigSectors == {Fat32Clusters}
FatFill == {64379, 64381}
FatFilled(n, k) == fat_add(fat_open(n), "reg", <<FillName(1)>>, k * FatBpc)
InitFatBig ==
    /\ fmt = "fat"
    /\ nsec \in FatBigSectors
    /\ phase = "opened"
    /\ err = "ok"
    /\ fs_len = nsec * 512
    /\ budget = MaxAddsAll
    /\ \E k \in FatFill :
          /\ fat = FatFilled(nsec, k)
          /\ added = <<[path |-> <<FillName(1)>>, type |-> "reg", size |-> k * FatBpc, id |-> 0]>>
          /\ call = AddCall(<<FillName(1)>>, [type |-> "reg", size |-> k * FatBpc])
    /\ ext = ExtIdle
    /\ len = LenIdle
    /\ mnx = MnxIdle
    /\ arc = ArcIdle
    /\ fsz = FszIdle
    /\ ech = EchIdle
    /\ out = <<>>
    /\ gpt = GptIdle
    /\ vfs = VfsIdle
FatBigInputs ==
    {[type |-> "reg", size |-> 0], [type |-> "reg", size |-> 100],
     [type |-> "dir", size |-> 0]}
AddFatBig ==
    /\ fmt = "fat" /\ CanAdd
    /\ \E in \in FatBigInputs, path \in NextPaths(Names \cup {NameD}) :
          /\ fat' = fat_add(fat, in.type, path, in.size)
          /\ added' = Entry(path, in, IF in.type = "dir" THEN LastNew(fat, fat') ELSE 0)
          /\ call' = AddCall(path, in)
    /\ phase' = After(fat')
    /\ err' = fat'.err
    /\ budget' = budget - 1
    /\ UNCHANGED <<fmt, nsec, fs_len, ext, len, mnx, arc, fsz, ech, out, gpt, vfs>>
NextFatBig == AddFatBig \/ CloseFat
SpecFatBig == InitFatBig /\ [][NextFatBig]_vars

\* LeanFS on a partition of more than five bands: a regular file that is the
\* first entry has its inode in sector 42 and fills band 0 with 4052 sectors of
\* content and each further band with 4095, so that its sector 20433 is the
\* first one of band 5.
LenExtSectors == {24000}
LenExtInputs ==
    {[type |-> "reg", size |-> 0], [type |-> "reg", size |-> 600],
     [type |-> "dir", size |-> 0], [type |-> "lnk", size |-> 3],
     [type |-> "reg", size |-> (4052 + 4 * (LenBand - 1) + 1) * LenSector]}
AddLeanExt ==
    /\ fmt = "lean" /\ CanAdd
    /\ \E in \in LenExtInputs, path \in NextPaths(Names) :
          /\ len' = len_add(len, in.type, path, in.size)
          /\ added' = Entry(path, in, FirstNew(len, len'))
          /\ call' = AddCall(path, in)
    /\ phase' = After(len')
    /\ err' = len'.err
    /\ budget' = budget - 1
    /\ UNCHANGED <<fmt, nsec, fs_len, ext, fat, mnx, arc, fsz, ech, out, gpt, vfs>>
InitLeanExt == Start("lean", LenExtSectors, MaxAddsAll)
NextLeanExt == OpenLean \/ AddLeanExt \/ CloseLean
SpecLeanExt == InitLeanExt /\ [][NextLeanExt]_vars

\* ext2 with a root directory block next to full: the tree already holds 22
\* empty regular files with names of LongLen characters (records of 180
\* bytes), which leaves 92 bytes, and for tail = 1 one more with a name of 81
\* characters, whose record ends at the end of the block.
ExtDirSectors == {1024}
ExtDirFill == {22}
FillTail == [i \in 1..81 |-> 122]
RECURSIVE ExtFillFrom(_, _, _)
ExtFillFrom(e, i, k) ==
    IF i > k THEN e
    ELSE With([e1 \in {ext_add(e, "reg", 0, 0, <<FillLong(i)>>, 0)} |-> ExtFillFrom(e1, i + 1, k)])
ExtDirFilled(n, k, tail) ==
    With([e \in {ExtFillFrom(ext_open(n), 1, k)} |->
        IF tail = 1 THEN ext_add(e, "reg", 0, 0, <<FillTail>>, 0) ELSE e])
InitExtDir ==
    /\ fmt = "ext2"
    /\ nsec \in ExtDirSectors
    /\ phase = "opened"
    /\ err = "ok"
    /\ fs_len = ((nsec * 512) \div SECSIZE) * SECSIZE
    /\ budget = MaxAddsAll
    /\ \E k \in ExtDirFill, tail \in {0, 1} :
          /\ ext = ExtDirFilled(nsec, k, tail)
          /\ added = [i \in 1..(k + tail) |->
                         [path |-> <<IF i > k THEN FillTail ELSE FillLong(i)>>,
                          type |-> "reg", size |-> 0, id |-> ExtFirstIno + i]]
          /\ call = AddCall(<<IF tail = 1 THEN FillTail ELSE FillLong(k)>>,
                            [type |-> "reg", size |-> 0])
    /\ fat = FatIdle
    /\ len = LenIdle
    /\ mnx = MnxIdle
    /\ arc = ArcIdle
    /\ fsz = FszIdle
    /\ ech = EchIdle
    /\ out = <<>>
    /\ gpt = GptIdle
    /\ vfs = VfsIdle
NextExtDir == AddExt \/ CloseExt
SpecExtDir == InitExtDir /\ [][NextExtDir]_vars

InitEch == Start("echfs", EchSectors, MaxAdds)
NextEch == OpenEch \/ AddEch \/ CloseEch
SpecEch == InitEch /\ [][NextEch]_vars

InitFsz == Start("fsz", FszSectors, MaxAdds)
NextFsz == OpenFsz \/ AddFsz \/ CloseFsz
SpecFsz == InitFsz /\ [][NextFsz]_vars

\* Partition sizes for the image writer: two sectors hold no archive with a
\* file, eight no FS/Z root.
ImgSectors == {2, 8, 64}
\* img_write is entered with the GPT made and nothing written
InitImg ==
    /\ fmt \in {"tar", "fsz", "unknown"}
    /\ nsec \in ImgSectors
    /\ phase = "img"
    /\ err = "ok"
    /\ fs_len = 0
    /\ budget = MaxAdds
    /\ added = <<>>
    /\ call = NoCall
    /\ ext = ExtIdle
    /\ fat = FatIdle
    /\ len = LenIdle
    /\ mnx = MnxIdle
    /\ arc = ArcIdle
    /\ fsz = FszIdle
    /\ ech = EchIdle
    /\ out = <<>>
    /\ gpt = GptIdle
    /\ vfs = VfsIdle
NextImg ==
    \/ OpenImg \/ NoDriver
    \/ OpenTar \/ AddTar \/ CloseTar
    \/ OpenFsz \/ AddFsz \/ CloseFsz
    \/ WriteImg
SpecImg == InitImg /\ [][NextImg]_vars

InitArc == \E f \in {"cpio", "tar", "jamesm"} : Start(f, ArcSectors, MaxAdds)
NextArc ==
    \/ OpenCpio \/ AddCpio \/ CloseCpio
    \/ OpenTar \/ AddTar \/ CloseTar
    \/ OpenJamesm \/ AddJamesm \/ CloseJamesm
SpecArc == InitArc /\ [][NextArc]_vars

Init ==
    \/ Start("ext2", ExtSectors, MaxAddsAll)
    \/ Start("fat", FatSectors, MaxAddsAll)
    \/ Start("lean", LenSectors, MaxAddsAll)
    \/ Start("minix", MnxSectors, MaxAddsAll)
    \/ \E f \in {"cpio", "tar", "jamesm"} : Start(f, ArcSectors, MaxAddsAll)
Next == NextExt \/ NextFat \/ NextLean \/ NextMnx \/ NextArc
Spec == Init /\ [][Next]_vars

(***************************************************************************)
(* Properties.                                                             *)
(***************************************************************************)
\* The driver is past a successful open and no call has failed since.
Built == phase \in {"opened", "closed"}
Distinct(s) == \A i, j \in DOMAIN s : i # j => s[i] # s[j]
\* the sum of f[x] over the x in S
RECURSIVE SumOver(_, _)
SumOver(f, S) ==
    IF S = {} THEN 0 ELSE LET x == CHOOSE y \in S : TRUE IN f[x] + SumOver(f, S \ {x})

\* ext2: the blocks that hold the superblock, the group descriptors, the two
\* bitmaps and the inode table of each group, and the superblock copies.
ExtMetaBlocks(e) ==
    UNION {(ExtBpg * g)..(ExtBg(e, g).bg_inode_table
                + CeilDiv(ExtGroupInodes(g, e.s_inodes_per_group, e.s_inodes_count)
                            * ExtInodeSize, SECSIZE) - 1) : g \in 0..(e.numbg - 1)}
        \cup {8 * g : g \in 1..(e.numbg - 1)}
\* FAT: the first byte after the boot sector, the FAT tables and the root
\* directory.
FatMetaEnd(f) == f.rootdir + (IF f.fat16 THEN 512 * FatSlotSize ELSE FatBpc)
\* LeanFS: the loader sectors, both superblocks and the band bitmaps.
LenMetaSectors(l) ==
    (0..l.primary_super) \cup {l.backup_super}
        \cup {l.bitmap_start + x : x \in 0..(LEAN_BITMAPSIZE - 1)}
        \cup {LenBand * g + x : g \in 1..(Max(l.sector_count \div LenBand, 1) - 1),
                                x \in 0..(LEAN_BITMAPSIZE - 1)}
\* Minix3: the first zone after the boot block, superblock, maps and inodes.
MnxFirstData(m) ==
    m.inode_offset + CeilDiv(m.s_ninodes, DEFAULT_BLOCK_SIZE \div MnxInodeSize)

RECURSIVE ExtReadBlock(_, _, _)
ExtReadBlock(e, b, off) ==
    LET d == ExtDirentAt(e, b * SECSIZE + off)
        here == IF d.inode = 0 THEN {}
                ELSE {[name |-> d.name, id |-> d.inode, dir |-> d.type = 2,
                       size |-> ExtInode(e, d.inode).i_size]}
    IN  IF off >= SECSIZE \/ d.rec_len < 8 THEN {}
        ELSE here \cup ExtReadBlock(e, b, off + d.rec_len)
ExtReadDir(e, ino) ==
    UNION {ExtReadBlock(e, ExtInode(e, ino).i_block[k], 0) :
             k \in {x \in 1..ExtNDirect : ExtInode(e, ino).i_block[x] # 0}}

\* The FAT entry v ends a chain.
FatEnd(f, v) == v < 2 \/ v >= FatEoc(f) - 7
RECURSIVE FatNth(_, _, _)
\* the cluster n links after c in its chain
FatNth(f, c, n) ==
    IF n = 0 THEN c
    ELSE IF FatEnd(f, FatEntry(f, c)) THEN NULLP
    ELSE FatNth(f, FatEntry(f, c), n - 1)
\* The address of slot k of the directory that starts at cluster c; 0 is the
\* root directory.
FatDirSlotAddr(f, c, k) ==
    IF c = 0 /\ f.fat16
    THEN IF k < 512 THEN f.rootdir + FatSlotSize * k ELSE NULLP
    ELSE LET per == FatBpc \div FatSlotSize
             n == FatNth(f, IF c = 0 THEN 2 ELSE c, k \div per)
         IN  IF n = NULLP \/ n > f.numclu THEN NULLP
             ELSE f.data + n * FatBpc + (k % per) * FatSlotSize
\* the name a short-name record spells
FatPlainName(s) ==
    LET head == {i \in 1..8 : s[i] # 32}
        tail == {i \in 9..11 : s[i] # 32}
        b == SubSeq(s, 1, IF head = {} THEN 0 ELSE CHOOSE x \in head : \A y \in head : y <= x)
        t == SubSeq(s, 9, IF tail = {} THEN 8 ELSE CHOOSE x \in tail : \A y \in tail : y <= x)
    IN  IF tail = {} THEN b ELSE b \o <<46>> \o t
\* The long-name records seen since the last short-name record are in pend,
\* unit index to unit.
RECURSIVE FatReadDir(_, _, _, _)
FatReadDir(f, c, k, pend) ==
    LET a == FatDirSlotAddr(f, c, k)
        s == FatSlot(f, a)
        base == ((s[1] % 64) - 1) * 13
        more == [x \in (DOMAIN pend) \cup (base..(base + 12)) |->
                   IF x >= base /\ x <= base + 12 THEN FatSlotUnit(s, x - base) ELSE pend[x]]
        top == CHOOSE x \in DOMAIN pend : \A y \in DOMAIN pend : y <= x
        full == [x \in 0..top |-> IF x \in DOMAIN pend THEN pend[x] ELSE 0]
        here == [name |-> IF DOMAIN pend = {} THEN FatPlainName(s) ELSE FatUc2Name(full),
                 id |-> FatSlotClu(s), dir |-> (s[12] \div 16) % 2 = 1,
                 size |-> FatSlotSizeField(s)]
    IN  IF a = NULLP \/ ~FatInside(f, a) THEN {}
        ELSE IF s[1] = 0 THEN {}
        ELSE IF s[12] = 15
             THEN IF s[1] % 64 = 0 THEN FatReadDir(f, c, k + 1, pend)
                  ELSE FatReadDir(f, c, k + 1, more)
        ELSE {here} \cup FatReadDir(f, c, k + 1, EmptyFn)

\* The address of byte j of the data of a LeanFS inode: the sectors of its
\* extents in order, the inode's own sector left out.
RECURSIVE LenAddrOf(_, _, _)
LenAddrOf(ino, i, j) ==
    LET own == IF i = 1 THEN 1 ELSE 0
        cap == (ino.extent_size[i] - own) * LenSector
    IN  IF i > LEAN_INODE_EXTENT_CNT \/ i > ino.extent_count THEN NULLP
        ELSE IF j < cap THEN (ino.extent_start[i] + own) * LenSector + j
        ELSE LenAddrOf(ino, i + 1, j - cap)
RECURSIVE LenReadDir(_, _, _)
LenReadDir(l, n, j) ==
    LET ino == LenInode(l, n)
        a == LenAddrOf(ino, 1, j)
        c == LenChunk(l, a)
        unit(x) == LenChunk(l, LenAddrOf(ino, 1, j + LenUnit + ((x - 5) \div LenUnit) * LenUnit))
        name == [x \in 1..LenDeNameLen(c) |->
                   IF x <= 4 THEN c[12 + x] ELSE unit(x)[((x - 5) % LenUnit) + 1]]
        here == IF LenDeInode(c) = 0 THEN {}
                ELSE {[name |-> name, id |-> LenDeInode(c), dir |-> c[9] = 2,
                       size |-> LenInode(l, LenDeInode(c)).file_size]}
    IN  IF j >= ino.file_size \/ a = NULLP \/ LenDeRecLen(c) = 0 THEN {}
        ELSE here \cup LenReadDir(l, n, j + LenDeRecLen(c) * LenUnit)

MnxReadDir(m, n) ==
    LET ino == MnxInode(m, n)
        slots == {<<k, i>> \in (1..NR_DZONES) \X (1..NR_DIR_ENTRIES) :
                    /\ ino.i_zone[k] # 0
                    /\ ((k - 1) * NR_DIR_ENTRIES + i) * MnxDirentSize <= ino.i_size
                    /\ i <= Len(MnxZone(m, ino.i_zone[k]).ents)
                    /\ MnxZone(m, ino.i_zone[k]).ents[i].d_ino # 0}
    IN  {[name |-> MnxZone(m, ino.i_zone[x[1]]).ents[x[2]].d_name,
          id |-> MnxZone(m, ino.i_zone[x[1]]).ents[x[2]].d_ino,
          dir |-> MnxInode(m, MnxZone(m, ino.i_zone[x[1]]).ents[x[2]].d_ino).mode = "dir",
          size |-> MnxInode(m, MnxZone(m, ino.i_zone[x[1]]).ents[x[2]].d_ino).i_size] :
            x \in slots}

\* The entry types each format stores.
StoredTypes(f) ==
    CASE f \in {"ext2", "minix"} -> {"reg", "dir", "lnk", "chr", "blk"}
      [] f = "fat" -> {"reg", "dir"}
      [] f = "jamesm" -> {"reg"}
      [] OTHER -> {"reg", "dir", "lnk"}

Filesystems == {"ext2", "fat", "lean", "minix"}
\* The unit of the root directory; FAT names it 0.
RootId ==
    CASE fmt = "ext2" -> ext.root [] fmt = "lean" -> len.root_inode
      [] fmt = "minix" -> mnx.root_inum [] OTHER -> 0
DirList(id) ==
    CASE fmt = "ext2" -> ExtReadDir(ext, id)
      [] fmt = "fat" -> FatReadDir(fat, id, 0, EmptyFn)
      [] fmt = "lean" -> LenReadDir(len, id, 0)
      [] fmt = "minix" -> MnxReadDir(mnx, id)
      [] OTHER -> {}
\* The entries the first k components of path lead to from the root.
RECURSIVE Reach(_, _)
Reach(path, k) ==
    IF k = 1 THEN {e \in DirList(RootId) : e.name = path[1]}
    ELSE UNION {{e \in DirList(p.id) : e.name = path[k]} :
                  p \in {q \in Reach(path, k - 1) : q.dir}}
\* the unit taken for the directory added as path
IdOf(path) ==
    IF path = <<>> THEN RootId
    ELSE added[CHOOSE j \in DOMAIN added : added[j].path = path].id

\* C3: in ext2, FAT, Minix3 and LeanFS every directory that add created
\* still holds "." pointing at itself and ".." pointing at the directory its
\* name was entered in.
C3_DotAndDotDot ==
    (fmt \in Filesystems /\ Built) =>
        \A i \in DOMAIN added :
            (added[i].type = "dir" /\ added[i].id # 0) =>
                /\ \E d \in DirList(added[i].id) : d.name = Dot /\ d.id = added[i].id
                /\ \E d \in DirList(added[i].id) :
                      /\ d.name = DotDot
                      /\ d.id = IdOf(SubSeq(added[i].path, 1, Len(added[i].path) - 1))

\* C4: in ext2, FAT, Minix3 and LeanFS (echfs and FS/Z are not part of this
\* model), when the ancestors of a path were added before it, then after add
\* returns the path resolves from the root, through the directories in the
\* buffer, to the entry made for it, and so does every path added earlier.
C4_PathsResolve ==
    (fmt \in Filesystems /\ Built) =>
        \A i \in DOMAIN added :
            added[i].type \in StoredTypes(fmt) =>
                \E e \in Reach(added[i].path, Len(added[i].path)) :
                    /\ added[i].id # 0 => e.id = added[i].id
                    /\ e.dir <=> added[i].type = "dir"

\* C5: a FAT regular file of s > 0 bytes has s in the size field of its
\* short-name record, a chain of ceil(s / cluster size) consecutive clusters
\* that ends in the end-of-chain mark, and exactly s bytes of content copied
\* to the first of them, whatever entries the image already holds.
C5_FatFileStored ==
    (/\ fmt = "fat" /\ phase = "opened"
     /\ call.op = "add" /\ call.type = "reg" /\ call.size > 0
     /\ added # <<>> /\ added[Len(added)].path = call.path) =>
        \E e \in Reach(call.path, Len(call.path)) :
            /\ ~e.dir
            /\ e.size = call.size
            /\ \A k \in 0..(CeilDiv(call.size, FatBpc) - 2) : FatEntry(fat, e.id + k) = e.id + k + 1
            /\ FatEntry(fat, e.id + CeilDiv(call.size, FatBpc) - 1) = FatEoc(fat)
            /\ fat.files # <<>>
            /\ fat.files[Len(fat.files)] = [start |-> fat.data + e.id * FatBpc, size |-> call.size]

\* The bits set in the block bitmaps and in the inode bitmaps of all groups.
ExtUsedBlocks(e) ==
    SumOver([g \in 0..(e.numbg - 1) |-> Cardinality(ExtBits(e, ExtBg(e, g).bg_block_bitmap))],
            0..(e.numbg - 1))
ExtUsedInodes(e) ==
    SumOver([g \in 0..(e.numbg - 1) |-> Cardinality(ExtBits(e, ExtBg(e, g).bg_inode_bitmap))],
            0..(e.numbg - 1))
LenUsedSectors(l) ==
    SumOver([g \in DOMAIN l.bits |-> Cardinality(l.bits[g])], DOMAIN l.bits)

\* C2: in ext2 and LeanFS, after open, after every successful add and after
\* close, each free counter equals the total number of units minus the units
\* marked used in the bitmaps; the two ext2 counters also equal the sums of
\* the per-group counters.
C2_FreeCounters ==
    /\ (fmt = "ext2" /\ Built) =>
          /\ ext.s_free_blocks_count = ext.s_blocks_count - ExtUsedBlocks(ext)
          /\ ext.s_free_inodes_count = ext.s_inodes_count - ExtUsedInodes(ext)
          /\ ext.s_free_blocks_count =
                SumOver([g \in 0..(ext.numbg - 1) |-> ExtBg(ext, g).bg_free_blocks_count],
                        0..(ext.numbg - 1))
          /\ ext.s_free_inodes_count =
                SumOver([g \in 0..(ext.numbg - 1) |-> ExtBg(ext, g).bg_free_inodes_count],
                        0..(ext.numbg - 1))
    /\ (fmt = "lean" /\ Built) =>
          len.free_sector_count = len.sector_count - LenUsedSectors(len)

\* C6: no allocator returns a unit at or beyond the unit count of the
\* partition: when the units run out the build ends with the fatal error
\* "too big" or "too many" instead.
C6_UnitsInsidePartition ==
    /\ (fmt = "ext2" /\ "allocs" \in DOMAIN ext) =>
          /\ \A b \in Range(ext.allocs) : b < ext.s_blocks_count
          /\ \A i \in Range(ext.iallocs) : i <= ext.s_inodes_count
    /\ (fmt = "fat" /\ "allocs" \in DOMAIN fat) =>
          \A c \in Range(fat.allocs) : c < fat.numclu
    /\ (fmt = "lean" /\ "allocs" \in DOMAIN len) =>
          \A x \in Range(len.allocs) : x < len.sector_count
    /\ (fmt = "minix" /\ "allocs" \in DOMAIN mnx) =>
          /\ \A z \in Range(mnx.allocs) : z < mnx.s_zones
          /\ \A i \in Range(mnx.iallocs) : i <= mnx.s_ninodes

BelowFloor ==
    CASE fmt = "ext2" -> (nsec * 512) \div SECSIZE < 8
      [] fmt = "fat" -> nsec < FatMinClusters
      [] fmt = "lean" -> nsec < LenPrimarySuper + LEAN_BITMAPSIZE
      [] OTHER -> FALSE

\* C10: open fails with "too small" exactly when the partition is below the
\* floor of the format (ext2: 8 blocks of 4096 bytes, FAT: 4085 clusters,
\* LeanFS: 33 sectors); at or above the floor open completes without a fatal
\* error.
C10_OpenFloor ==
    (call.op = "open" /\ fmt \in {"ext2", "fat", "lean"}) =>
        /\ (phase = "fatal" /\ err = "nosize") <=> BelowFloor
        /\ ~BelowFloor => phase = "opened"

\* C7: every byte a FAT add writes lies inside the buffer: a file whose
\* content would reach past the end of the buffer ends the build with "too
\* big" before a byte of it is copied.
C7_FatWritesInside ==
    (fmt = "fat" /\ "maxw" \in DOMAIN fat) => fat.maxw <= fat.len

\* the names a directory of the ext2 image lists
ExtNames(e, ino) == {d.name : d \in ExtReadDir(e, ino)}
\* the first entry of the tree has just been handed to add
FirstAdd == call.op = "add" /\ budget = MaxAdds - 1 /\ call.path[Len(call.path)] # Dot

\* C11: ext2 at its boundaries: open of an 8-block partition succeeds with
\* exactly the inodes 1..11 allocated, the root listing ".", ".." and
\* "lost+found" and lost+found listing "." and ".."; on a 12-block partition
\* open and the add of one regular file of at least one block succeed; open of
\* a 4-block partition ends with the "too small" error.
C11_Ext2Boundary ==
    fmt = "ext2" =>
        /\ (nsec = 64 /\ call.op = "open") =>
              /\ phase = "opened"
              /\ Range(ext.iallocs) = 1..ExtFirstIno
              /\ ExtNames(ext, ext.root) = {Dot, DotDot, LostFound}
              /\ {Dot, DotDot} \subseteq ExtNames(ext, ExtFirstIno)
        /\ (nsec = 96 /\ FirstAdd /\ call.type = "reg" /\ call.size >= SECSIZE) =>
              phase = "opened"
        /\ (nsec = 32 /\ call.op = "open") => (phase = "fatal" /\ err = "nosize")

\* an add of a regular file or a directory under a name that does not start
\* with '.' has returned
FatNamed ==
    /\ fmt = "fat" /\ call.op = "add" /\ phase = "opened"
    /\ call.type \in {"reg", "dir"} /\ call.path[Len(call.path)][1] # 46
\* the records fat_writelfn wrote for the name, as they stand in the buffer
FatRun == [j \in DOMAIN fat.wat |-> FatSlot(fat, fat.wat[j])]
\* "~" and seven hexadecimal digits followed by "LFN"
FatIsAlias(b) ==
    /\ b[1] = 126 /\ SubSeq(b, 9, 11) = <<76, 70, 78>>
    /\ \A i \in 2..8 : b[i] \in (48..57) \cup (97..102)

\* C12: FAT: for a name of n UTF-16 units (n >= 1, not starting with '.') add
\* leaves ceil(n/13) long-name records (attribute 0x0F, sequence numbers
\* descending to 1, the first carrying the flag 0x40, each with the checksum
\* of the generated alias) immediately followed by one short-name record; a
\* name of 64 characters gives 5 long-name records.
C12_FatLfnRecords ==
    FatNamed =>
        LET n == Len(FatToUc2(call.path[Len(call.path)]))
            m == CeilDiv(n, 13)
        IN  /\ Len(fat.wat) = m + 1
            /\ n = 64 => Len(fat.wat) = 5 + 1
            /\ \A j \in 1..m :
                  /\ FatRun[j][12] = 15
                  /\ FatRun[j][1] = (IF j = 1 THEN 64 ELSE 0) + (m - j + 1)
                  /\ FatRun[j][14] = FatChecksum(SubSeq(FatRun[m + 1], 1, 11), 1, 0)
                  /\ fat.wat[j + 1] = fat.wat[j] + FatSlotSize
                        \/ fat.wat[j + 1] % FatBpc = 0
            /\ FatRun[m + 1][12] # 15
            /\ FatIsAlias(FatRun[m + 1])

\* static unsigned long octal_to_int(const char *str, int len)
\* (src/userspace/vfs_server/vfs_server.c): the digits read from index i on
RECURSIVE OctalFrom(_, _, _, _)
OctalFrom(str, i, n, result) ==
    IF i < n /\ i + 1 <= Len(str) /\ str[i + 1] >= 48 /\ str[i + 1] <= 55
    THEN OctalFrom(str, i + 1, n, result * 8 + (str[i + 1] - 48))
    ELSE result
octal_to_int(str, n) == OctalFrom(str, 0, n, 0)

\* the 512 bytes at offset at of the archive
TarBlock(img, at) == SubSeq(img, at + 1, at + 512)
\* the sum of a header's bytes, the 8 bytes of the checksum field taken as spaces
TarSpaceSum(h) ==
    TarSum([i \in 1..512 |-> IF i > 148 /\ i <= 156 THEN 32 ELSE h[i]], 1, 512)
\* tar_add has just been called for a regular file
TarAddsReg == fmt = "tar" /\ arc.err = "ok" /\ budget' = budget - 1 /\ call'.type = "reg"

\* C13: ustar: adding a regular file of s bytes appends one 512-byte header
\* and ceil(s/512) blocks of 512 bytes holding the content and then zeros (for
\* s = 0 the header only); the checksum field of the header holds in octal the
\* sum of the 512 header bytes with the 8 checksum bytes counted as spaces; the
\* bytes earlier adds wrote are unchanged.
C13_TarAppend ==
    [][TarAddsReg =>
          LET s == call'.size
              old == Len(arc.img)
              h == TarBlock(arc'.img, old)
          IN  /\ Len(arc'.img) = old + 512 + 512 * CeilDiv(s, 512)
              /\ fs_len' = Len(arc'.img)
              /\ SubSeq(arc'.img, 1, old) = arc.img
              /\ \A i \in 1..(512 * CeilDiv(s, 512)) :
                    arc'.img[old + 512 + i] = IF i <= s THEN ContentByte ELSE 0
              /\ octal_to_int(SubSeq(h, 149, 156), 8) = TarSpaceSum(h)
              /\ \A i \in 149..154 : h[i] >= 48 /\ h[i] <= 55]_vars
\* a regular file of 600 bytes was added to an archive that held an entry
C13_Witness ==
    /\ fmt = "tar" /\ phase = "opened" /\ call.op = "add" /\ call.type = "reg"
    /\ call.size = 600 /\ Len(arc.entries) >= 2
    /\ Len(arc.img) = arc.entries[Len(arc.entries)].at + 512 + 1024

\* every zone the directory inode ino has is full and a direct slot is free
MnxDirFull(m, ino) ==
    /\ MnxInode(m, ino).i_zone[1] # 0
    /\ MnxInode(m, ino).i_zone[NR_DZONES] = 0
    /\ \A k \in 1..NR_DZONES :
          MnxInode(m, ino).i_zone[k] # 0 =>
             Len(MnxZone(m, MnxInode(m, ino).i_zone[k]).ents) = NR_DIR_ENTRIES
\* the first free zone slot of inode ino
MnxFreeSlot(m, ino) ==
    CHOOSE k \in 1..NR_DZONES :
        MnxInode(m, ino).i_zone[k] = 0 /\ \A j \in 1..(k - 1) : MnxInode(m, ino).i_zone[j] # 0
\* the directory the entry of the call is entered in
MnxParentOf(path) == IdOf(SubSeq(path, 1, Len(path) - 1))
\* mnx_add enters a name in a directory whose zones are full, and returns
MnxAddsToFull ==
    /\ fmt = "minix" /\ budget' = budget - 1 /\ mnx.err = "ok" /\ mnx'.err = "ok"
    /\ call'.type \in {"reg", "dir", "lnk", "chr", "blk"}
    /\ call'.path[Len(call'.path)] \notin {Dot, DotDot}
    /\ MnxDirFull(mnx, MnxParentOf(call'.path))

FszDirs == {1} \cup {added[i].id : i \in {x \in DOMAIN added : added[x].type = "dir"}}
FszAfterAdd == fmt = "fsz" /\ phase = "opened" /\ call.op = "add"
\* the directory of inode sector n is stored in order, without a gap, and
\* counted right
FszDirOk(n) ==
    With([s \in {FszSec(fsz, n)} |->
        /\ s.kind = "inode"
        /\ s.inl.t = "dir"
        /\ With([c \in {FszFirstFree(s.inl.ents) - 1} |->
              /\ \A i \in (c + 1)..FszDirMax : s.inl.ents[i].fid = 0
              /\ s.inl.numentries = c
              /\ \A i \in 1..(c - 1) :
                    FszNameLess(s.inl.ents[i].name, s.inl.ents[i + 1].name)])])

\* C15: FS/Z: after every add the entries of every directory are stored in
\* ascending byte-wise name order, contiguously from the first slot, and
\* numentries of the directory header equals the number of stored entries.
C15_FszDirSorted == FszAfterAdd => \A n \in FszDirs : FszDirOk(n)
\* the same while no file with a sector directory was added
C15_FszDirSortedSmall ==
    (FszAfterAdd /\ \A i \in DOMAIN added : added[i].size <= FSZ_SECSIZE)
        => \A n \in FszDirs : FszDirOk(n)


\* the sectors an inode was placed at: the root and every entry added
FszInodes == {1} \cup {added[i].id : i \in {x \in DOMAIN added : added[x].id # 0}}
\* the checksums of the inode at sector n are those of its regions as they
\* stand
FszChecksumOk(n) ==
    With([in \in {FszInode(fsz, n)} |->
        /\ in.checksum = crc32_calc(FszInodeRegion(in))
        /\ in.inl.t = "dir" => in.inl.checksum = crc32_calc(FszDirRegion(in.inl, in.size))])

\* C16: FS/Z: after open and after every add the checksum of every inode is
\* the CRC32 of its checksummed region as it stands, and the checksum of every
\* directory header is the CRC32 over its entries; no inode, the root
\* directory included, is left with a stale checksum.
C16_FszChecksums ==
    (fmt = "fsz" /\ phase = "opened") => \A n \in FszInodes : FszChecksumOk(n)
\* the same once an entry was linked, while no file with a sector directory
\* was added
C16_FszChecksumsAfterAdd ==
    (FszAfterAdd /\ FszInodes # {1} /\ \A i \in DOMAIN added : added[i].size <= FSZ_SECSIZE)
        => \A n \in FszInodes : FszChecksumOk(n)


(***************************************************************************)
(* ext2 symbolic links (ext2.c lines 382-390) and close (lines 402-411).   *)
(***************************************************************************)
ExtAddedLink ==
    /\ fmt = "ext2" /\ call.op = "add" /\ call.type = "lnk"
    /\ call.path[Len(call.path)] # Dot
\* the inode of the entry added last
ExtLastInode == ExtInode(ext, added[Len(added)].id)
\* the link added last has one block, its first, and the block holds the n
\* bytes of the target
ExtLinkStored(n) ==
    With([b \in {ExtLastInode.i_block[1]} |->
        /\ b # 0
        /\ b = ext.allocs[Len(ext.allocs)]
        /\ \A i \in 2..15 : ExtLastInode.i_block[i] = 0
        /\ b \in DOMAIN ext.blk
        /\ ext.blk[b].k = "data" /\ ext.blk[b].ino = added[Len(added)].id
        /\ ext.blk[b].len = n])

\* C17: ext2: adding a symlink whose target is n < 4096 bytes long allocates
\* one data block, records it as the first block of the inode and copies
\* exactly the n bytes of the target into it; a target of 4096 bytes or more
\* ends the build with "too big".
C17_Ext2Symlink ==
    ExtAddedLink =>
        IF call.size >= SECSIZE THEN err # "ok"
        ELSE err = "ok" => ExtLinkStored(call.size)
\* the part of C17 the code keeps: the block is allocated and recorded, and a
\* target of 4096 bytes or more is refused with "too big" unless the inode or
\* the directory entry could not be made before
C17_Ext2SymlinkBlock ==
    ExtAddedLink =>
        IF call.size >= SECSIZE THEN err \in {"toobig", "toomany"}
        ELSE err = "ok" => \E k \in 0..(ExtNDirect - 1) : ExtLinkStored(k)


\* the blocks ext_close may write according to the claim: the first two
\* blocks of every group i >= 1
ExtBackupBlocks == UNION {{ExtBpg * i, ExtBpg * i + 1} : i \in 1..(ext.numbg - 1)}
\* a close of an image of more than one group
ExtClosesGroups == CloseExt /\ ext.err = "ok" /\ ext.numbg > 1

\* C18: ext2 close writes, for each block group i >= 1, a copy of the
\* primary superblock and of the group descriptor block at blocks 32768*i and
\* 32768*i + 1 with s_block_group_nr = i, and changes no other block.
C18_Ext2CloseBackups ==
    [][ExtClosesGroups =>
        /\ \A i \in 1..(ext.numbg - 1) :
              /\ Get(ext'.blk, ExtBpg * i, [k |-> "zero"]) = [k |-> "sbcopy", nr |-> i]
              /\ Get(ext'.blk, ExtBpg * i + 1, [k |-> "zero"]) = [k |-> "bgcopy"]
        /\ \A b \in (DOMAIN ext.blk \cup DOMAIN ext'.blk) \ ExtBackupBlocks :
              Get(ext'.blk, b, [k |-> "zero"]) = Get(ext.blk, b, [k |-> "zero"])
        /\ ext'.inodes = ext.inodes /\ ext'.bits = ext.bits]_vars
\* what the code does instead: the copies go to byte offset 32768*i, blocks 8*i and 8*i + 1, which
\* lie in the inode table of group 0
C18_Ext2CloseCopies ==
    [][ExtClosesGroups =>
        /\ \A i \in 1..(ext.numbg - 1) :
              /\ ext'.blk[ExtBackupAt(i) \div SECSIZE] = [k |-> "sbcopy", nr |-> i]
              /\ ext'.blk[ExtBackupAt(i) \div SECSIZE + 1] = [k |-> "bgcopy"]
              /\ ExtBackupAt(i) \div SECSIZE >= ExtBg(ext, 0).bg_inode_table
              /\ ExtBackupAt(i) \div SECSIZE + 1 < ExtBg(ext, 0).bg_inode_table
                                + (ext.s_inodes_per_group * ExtInodeSize) \div SECSIZE
        /\ ext'.bits = ext.bits]_vars


(***************************************************************************)
(* The TAR reader of the VFS server (src/userspace/vfs_server/vfs_server.c *)
(* lines 134-189) run on the archive the ustar builder wrote.              *)
(***************************************************************************)
\* "ustar"
TarMagic == <<117, 115, 116, 97, 114>>
\* static int tar_header_is_valid(const struct tar_header *header)
tar_header_is_valid(h) == SubSeq(h, 258, 262) = TarMagic
\* static int str_equals(const char *a, const char *b): a and b are read up to
\* their first zero byte; b is a path, a the name field of a header
str_equals(a, b) ==
    With([bz \in {Append(b, 0)} |->
        With([k \in {CHOOSE k \in 1..Len(bz) :
                        /\ a[k] = 0 \/ bz[k] = 0
                        /\ \A i \in 1..(k - 1) : a[i] # 0 /\ bz[i] # 0} |->
            /\ \A i \in 1..(k - 1) : a[i] = bz[i]
            /\ a[k] = bz[k]])])
TarNotFound == [found |-> FALSE, data |-> 0, size |-> 0, seen |-> <<>>]
\* The loop of tar_find_file from offset ptr on; seen are the offsets of the
\* headers visited so far.
RECURSIVE TarFindFrom(_, _, _, _)
TarFindFrom(img, ptr, path, seen) ==
    IF ptr + 512 > Len(img) THEN [TarNotFound EXCEPT !.seen = seen]
    ELSE With([h \in {TarBlock(img, ptr)} |->
        IF h[1] = 0 \/ ~tar_header_is_valid(h) THEN [TarNotFound EXCEPT !.seen = seen]
        ELSE With([file_size \in {octal_to_int(SubSeq(h, 125, 136), 12)} |->
            IF str_equals(SubSeq(h, 1, 100), path)
            THEN [found |-> TRUE, data |-> ptr + 512, size |-> file_size,
                  seen |-> Append(seen, ptr)]
            ELSE TarFindFrom(img, ptr + 512 + CeilDiv(file_size, 512) * 512, path,
                             Append(seen, ptr))])])
\* static const char* tar_find_file(tar_base, tar_size, path, out_size)
tar_find_file(img, path) == TarFindFrom(img, 0, path, <<>>)

\* a ustar archive with at least one entry, names shorter than 100 bytes, no
\* name twice (a directory tree holds every path once)
TarBuilt ==
    /\ fmt = "tar" /\ arc.err = "ok" /\ phase \in {"opened", "closed"}
    /\ arc.entries # <<>>
    /\ \A i \in DOMAIN arc.entries : Len(arc.entries[i].name) < TarNameMax
    /\ \A i, j \in DOMAIN arc.entries : arc.entries[i].name = arc.entries[j].name => i = j
\* the reader, asked for a name no entry has, visits the headers written, in
\* order
TarVisitsAll ==
    tar_find_file(arc.img, <<>>).seen = [j \in DOMAIN arc.entries |-> arc.entries[j].at]
\* the reader returns the data position and the size of entry i
TarFinds(i) ==
    With([r \in {tar_find_file(arc.img, arc.entries[i].name)} |->
        r.found /\ r.data = arc.entries[i].at + 512 /\ r.size = arc.entries[i].size])

\* C19: round trip between the ustar builder and the TAR reader of the VFS
\* server: for every archive built by tar_add calls (regular files,
\* directories, symlinks, names shorter than 100 bytes) the reader's walk
\* visits exactly the headers written, in order, and tar_find_file returns
\* the data position and the size of every regular file added.
C19_TarRoundTrip ==
    TarBuilt =>
        /\ TarVisitsAll
        /\ \A i \in DOMAIN arc.entries : arc.entries[i].type = "reg" => TarFinds(i)
\* the same for archives without a symlink
C19_TarRoundTripNoLink ==
    (TarBuilt /\ \A i \in DOMAIN arc.entries : arc.entries[i].type # "lnk")
        => /\ TarVisitsAll
           /\ \A i \in DOMAIN arc.entries : arc.entries[i].type = "reg" => TarFinds(i)


(***************************************************************************)
(* The image writer (img.c lines 115-126) against the GPT entry            *)
(* (gpt.c lines 190-203).                                                  *)
(***************************************************************************)
\* the size of the partition as laid out in the GPT:
\* (end_lba - start_lba + 1) * 512
GptPartBytes ==
    With([e \in {GptEntry(GptEspLast, GptParts)} |-> (e.last - e.start + 1) * 512])
ImgWrites == phase = "closed" /\ call'.op = "write"

\* C20: the image writer writes the buffer built for a partition only if its
\* length does not exceed the size of the partition as laid out in the GPT;
\* otherwise the build ends with the fatal "partition too small" error and
\* the buffer is not written.
C20_ImgWriteFits ==
    [][ImgWrites =>
        IF fs_len <= GptPartBytes
        THEN phase' = "written" /\ call'.size = fs_len /\ err' = err
        ELSE phase' = "fatal" /\ err' = "partsize" /\ call'.size = 0]_vars
\* an archive that outgrew its partition was refused
C20_Witness ==
    /\ call.op = "write" /\ phase = "fatal" /\ err = "partsize" /\ fs_len > GptPartBytes
    /\ fmt = "tar" /\ added # <<>>


\* the build of a partition has ended fatally
ImgFatal == phase = "fatal"
\* C21: if a builder error, an unknown driver name or the partition-size
\* check ends the build, nothing has been written to the output image file
\* before that point.
C21_FatalBeforeWrite == ImgFatal => out = <<>>
\* each of the three fatal exits happens with the GPT and the ESP written
C21_Written ==
    ImgFatal => /\ err \in {"type", "partsize", "toobig", "nosize", "toomany", "undefined"}
                /\ Len(out) >= 2 /\ out[1].what = "gpt" /\ out[2].what = "esp"

\* The sectors handed out by len_alloc_blk so far.
LenAllocated == IF len.err = "idle" THEN {} ELSE {len.allocs[i] : i \in DOMAIN len.allocs}
\* The sectors that hold a band's bitmap.
LenBitmapSectors ==
    {len.bitmap_start} \cup {g * LenBand : g \in 1..(len.numblk \div LenBand)}
LenMarked(r) == (r % LenBand) \in LenBits(len, r \div LenBand)
\* C22: every sector r that len_alloc_blk has returned has bit r mod 4096 set
\* in the bitmap of band r div 4096 and is neither the superblock, the backup
\* superblock nor a sector holding a band bitmap.
C22_LenAllocMarks ==
    \A r \in LenAllocated :
        /\ LenMarked(r)
        /\ r \notin {len.primary_super, len.backup_super} \cup LenBitmapSectors
\* an allocation was made past the boundary of the first band
C22_Crossed == \E r \in LenAllocated : r >= LenBand
\* Within the first band the allocator marks the sector it returns.
C22_LenAllocMarksFirstBand ==
    \A r \in LenAllocated : r < LenBand => LenMarked(r)

\* The bit numbers set in the bitmap of nblocks blocks that starts at block map.
MnxMapBits(map, nblocks) ==
    UNION {{(b - map) * FS_BITS_PER_BLOCK + p : p \in Get(mnx.bmap, b, {})} :
           b \in map..(map + nblocks - 1)}
MnxInodeBits == {0} \cup {mnx.iallocs[i] : i \in DOMAIN mnx.iallocs}
MnxZoneBits == {0} \cup {mnx.allocs[i] - mnx.zoff : i \in DOMAIN mnx.allocs}
\* C23: after any build the bits set in the inode map are exactly bit 0 and
\* the allocated inode numbers, and the bits set in the zone map are exactly
\* bit 0 and z - zoff for every allocated zone z.
C23_MnxBitmapsExact ==
    mnx.err = "ok" =>
        /\ MnxMapBits(2, mnx.s_imap_blocks) = MnxInodeBits
        /\ MnxMapBits(mnx.zone_map, mnx.s_zmap_blocks) = MnxZoneBits
\* While fewer than FS_BITCHUNK_BITS inodes and zones are allocated the maps
\* are exact.
C23_MnxBitmapsExactSmall ==
    (mnx.err = "ok" /\ \A b \in MnxInodeBits \cup MnxZoneBits : b < FS_BITCHUNK_BITS) =>
        /\ MnxMapBits(2, mnx.s_imap_blocks) = MnxInodeBits
        /\ MnxMapBits(mnx.zone_map, mnx.s_zmap_blocks) = MnxZoneBits

\* The addresses of the directory slots that hold a record.
FatRecords(f) == IF f.err # "ok" THEN {} ELSE {d \in DOMAIN f.mem : f.mem[d][1] # 0}
FatAddStep == fmt = "fat" /\ phase = "opened" /\ call'.op = "add" /\ fat'.err = "ok"
\* C24: an add of the FAT builder writes into free directory slots only: every
\* directory record present before the add is still there, byte for byte,
\* after it.
C24_FatNoOverwrite ==
    [][FatAddStep => \A d \in FatRecords(fat) :
                        d \in DOMAIN fat'.mem /\ fat'.mem[d] = fat.mem[d]]_vars
\* An add into the root directory of a FAT16 partition keeps the records of
\* the root.
C24_FatRootKept ==
    [][(FatAddStep /\ fat.fat16 /\ Len(call'.path) = 1)
          => \A d \in FatRecords(fat) :
                d < fat.data + 3 * FatBpc => (d \in DOMAIN fat'.mem /\ fat'.mem[d] = fat.mem[d])]_vars

\* An add of a regular file of more than one sector that came back.
FszLargeAdd ==
    /\ fmt = "fsz" /\ phase = "opened" /\ call'.op = "add" /\ call'.type = "reg"
    /\ call'.size > FSZ_SECSIZE /\ fsz'.err = "ok" /\ fsz'.len > fsz.len
\* Sector i of the content of the file of inode sector n lies in the sector
\* its i-th sector-directory entry records.
FszMapped(f, n) ==
    With([in \in {FszSec(f, n)} |->
        /\ in.kind = "inode"
        /\ in.inl.t = "sd"
        /\ \A i \in DOMAIN in.inl.ks :
              With([c \in {FszSec(f, in.inl.ks[i])} |->
                 /\ in.inl.ks[i] > n
                 /\ c.kind = "content" /\ c.file = n /\ c.idx = i - 1
                 /\ c.from = in.inl.ks[i] * FSZ_SECSIZE])])
\* C25: the add of a regular file larger than one sector copies sector i of
\* the content to the sector recorded in the i-th sector-directory entry, at
\* or beyond the former buffer length; the buffer grows by the inode and the
\* sectors consumed; no sector written before is changed except directory
\* inodes.
C25_FszLargeFile ==
    [][FszLargeAdd =>
          /\ FszMapped(fsz', fsz.len \div FSZ_SECSIZE)
          /\ fsz'.len = fsz.len + FSZ_SECSIZE + CeilDiv(call'.size, FSZ_SECSIZE) * FSZ_SECSIZE
          /\ \A n \in (DOMAIN fsz.secs) \ FszDirs : FszSec(fsz', n) = FszSec(fsz, n)]_vars
\* The buffer grows by the inode and the sectors of the content.
C25_FszLargeFileGrows ==
    [][FszLargeAdd =>
          fsz'.len = fsz.len + FSZ_SECSIZE + CeilDiv(call'.size, FSZ_SECSIZE) * FSZ_SECSIZE]_vars

EchClosed == fmt = "echfs" /\ call.op = "close"
\* C26: at close of echfs the reserved area, the allocation table, the
\* directory area and all file data fit inside the buffer that close sizes,
\* and every allocation-table entry written has an index below the block
\* count, for a partition and for an initrd.
C26_EchCloseFits ==
    EchClosed =>
        /\ (EchReserved + ech.dirblk + ech.tabblk) * EchBlock + ech.datalen <= ech.len
        /\ Len(ech.table) <= ech.numblk
\* For an initrd of fewer than 64 blocks the buffer holds all of it.
C26_EchInitrdSmallFits ==
    (EchClosed /\ nsec = 0 /\ ech.offs * EchBlock + ech.datalen < 64 * EchBlock) =>
        /\ (EchReserved + ech.dirblk + ech.tabblk) * EchBlock + ech.datalen <= ech.len
        /\ Len(ech.table) <= ech.numblk
        /\ ech.maxw <= ech.len

LenAddStep == fmt = "lean" /\ phase = "opened" /\ call'.op = "add" /\ len'.err = "ok"
\* The inode of the directory that the entry of path goes to.
LenTarget(path) ==
    IF Len(path) = 1 THEN len.root_inode
    ELSE (CHOOSE e \in Range(added) : e.path = SubSeq(path, 1, Len(path) - 1)).id
\* The sectors of the extents of inode n.
LenExtentSectors(l, n) ==
    With([ino \in {LenInode(l, n)} |->
        UNION {ino.extent_start[x]..(ino.extent_start[x] + ino.extent_size[x] - 1) :
               x \in 1..Min(ino.extent_count, LEAN_INODE_EXTENT_CNT)}])
\* The 16-byte units of directory data that the step wrote.
LenUnitsWritten ==
    {a \in DOMAIN len'.dmem : a \notin DOMAIN len.dmem \/ len'.dmem[a] # len.dmem[a]}
\* C27: every unit of a directory entry that an add of the LeanFS builder
\* writes lies in a sector of an extent of the directory the entry goes to
\* (for a new directory also of that directory, which gets "." and "..").
C27_LenDirentInside ==
    [][LenAddStep =>
          \A a \in LenUnitsWritten :
              (a \div LenSector) \in LenExtentSectors(len', LenTarget(call'.path))
                                        \cup LenExtentSectors(len', FirstNew(len, len'))]_vars
\* The same while the entries of the directory end before the last sector of
\* its first extent.
C27_LenDirentInsideRoomy ==
    [][(LenAddStep /\ LenInode(len', LenTarget(call'.path)).file_size
                        <= (LenPrealloc - 1) * LenSector) =>
          \A a \in LenUnitsWritten :
              (a \div LenSector) \in LenExtentSectors(len', LenTarget(call'.path))
                                        \cup LenExtentSectors(len', FirstNew(len, len'))]_vars

\* The sequences s[1], s[2], ... one after the other.
RECURSIVE Flatten(_)
Flatten(s) == IF s = <<>> THEN <<>> ELSE Flatten(SubSeq(s, 1, Len(s) - 1)) \o s[Len(s)]
\* The data units of an ext2 inode in logical order: the direct slots, the
\* entries of the indirect block, the entries under the double indirect block.
ExtDirect(e, ino) == {i \in 1..ExtNDirect : ExtInode(e, ino).i_block[i] # 0}
ExtLogical(e, ino) ==
    LET ib == ExtInode(e, ino).i_block
        dind == ExtPtrs(e, ib[14])
    IN  [i \in 1..Cardinality(ExtDirect(e, ino)) |-> ib[i]]
            \o (IF ib[13] = 0 THEN <<>> ELSE ExtPtrs(e, ib[13]))
            \o (IF ib[14] = 0 THEN <<>> ELSE Flatten([j \in DOMAIN dind |-> ExtPtrs(e, dind[j])]))
MnxDirect(m, n) == {i \in 1..NR_DZONES : MnxInode(m, n).i_zone[i] # 0}
MnxLogical(m, n) ==
    LET iz == MnxInode(m, n).i_zone
        dind == MnxZone(m, iz[NR_DZONES + 2]).ptrs
    IN  [i \in 1..Cardinality(MnxDirect(m, n)) |-> iz[i]]
            \o (IF iz[NR_DZONES + 1] = 0 THEN <<>> ELSE MnxZone(m, iz[NR_DZONES + 1]).ptrs)
            \o (IF iz[NR_DZONES + 2] = 0 THEN <<>>
                ELSE Flatten([j \in DOMAIN dind |-> MnxZone(m, dind[j]).ptrs]))
\* Unit k of n units lies in the slot that its logical position k asks for:
\* direct slots first, the indirect block when these are full, the blocks
\* under the double indirect block when that is full.
UnitsInOrder(n, ndirect, perblock, direct, ind, dind, sub(_)) ==
    /\ direct = 1..Min(n, ndirect)
    /\ Len(ind) = Min(Max(n - ndirect, 0), perblock)
    /\ Len(dind) = CeilDiv(Max(n - ndirect - perblock, 0), perblock)
    /\ \A j \in 1..(Len(dind) - 1) : Len(sub(dind[j])) = perblock
ExtSub(b) == ExtPtrs(ext, b)
MnxSub(z) == MnxZone(mnx, z).ptrs
ExtFileOk(f) ==
    LET n == CeilDiv(f.size, SECSIZE)
        L == ExtLogical(ext, f.id)
        ib == ExtInode(ext, f.id).i_block
    IN  /\ Len(L) = n
        /\ UnitsInOrder(n, ExtNDirect, SECSIZE \div 4, ExtDirect(ext, f.id),
                        ExtPtrs(ext, ib[13]), ExtPtrs(ext, ib[14]), ExtSub)
        /\ \A k \in 1..n : /\ L[k] \in DOMAIN ext.blk
                            /\ ext.blk[L[k]] = [k |-> "data", ino |-> f.id,
                                                 pos |-> (k - 1) * SECSIZE,
                                                 len |-> Min(f.size - (k - 1) * SECSIZE, SECSIZE)]
MnxFileOk(f) ==
    LET n == CeilDiv(f.size, DEFAULT_BLOCK_SIZE)
        L == MnxLogical(mnx, f.id)
        iz == MnxInode(mnx, f.id).i_zone
    IN  /\ Len(L) = n
        /\ UnitsInOrder(n, NR_DZONES, INDIRECTS, MnxDirect(mnx, f.id),
                        MnxZone(mnx, iz[NR_DZONES + 1]).ptrs,
                        MnxZone(mnx, iz[NR_DZONES + 2]).ptrs, MnxSub)
        /\ \A k \in 1..n : /\ MnxZone(mnx, L[k]).kind = "data"
                            /\ MnxZone(mnx, L[k]).ino = f.id
                            /\ MnxZone(mnx, L[k]).pos = (k - 1) * DEFAULT_BLOCK_SIZE
IsPrefix(s, t) == Len(s) <= Len(t) /\ SubSeq(t, 1, Len(s)) = s
BigFiles == {added[i] : i \in {x \in DOMAIN added : added[x].type = "reg"}}
\* the units of every regular file added lie in logical order
UnitsPlaced ==
    /\ (fmt = "ext2" /\ ext.err = "ok") => \A f \in BigFiles : ExtFileOk(f)
    /\ (fmt = "minix" /\ mnx.err = "ok") => \A f \in BigFiles : MnxFileOk(f)
\* a step leaves the pointers recorded before it as they are
UnitsKept ==
    /\ (fmt = "ext2" /\ ext.err = "ok" /\ ext'.err = "ok") =>
          \A ino \in DOMAIN ext.inodes : IsPrefix(ExtLogical(ext, ino), ExtLogical(ext', ino))
    /\ (fmt = "minix" /\ mnx.err = "ok" /\ mnx'.err = "ok") =>
          \A n \in DOMAIN mnx.inodes : IsPrefix(MnxLogical(mnx, n), MnxLogical(mnx', n))
C28_MnxDoubleIndirect ==
    /\ fmt = "minix" /\ mnx.err = "ok"
    /\ \E f \in BigFiles : MnxInode(mnx, f.id).i_zone[NR_DZONES + 2] # 0 /\ MnxFileOk(f)

\* Following rec_len from offset off of a directory block with the records
\* ents visits records that lie inside the block and ends at the block's end.
RECURSIVE ExtChainFrom(_, _)
ExtChainFrom(ents, off) ==
    IF off = SECSIZE THEN TRUE
    ELSE IF off > SECSIZE \/ off \notin DOMAIN ents THEN FALSE
    ELSE /\ ents[off].rec_len >= 8 + ents[off].name_len
         /\ With([o \in {off + ents[off].rec_len} |-> ExtChainFrom(ents, o)])
ExtDirBlocks(e) == {b \in DOMAIN e.blk : e.blk[b].k = "dir"}
ExtChainsOk == ext.err = "ok" => \A b \in ExtDirBlocks(ext) : ExtChainFrom(ext.blk[b].ents, 0)
ExtAddStep == fmt = "ext2" /\ phase = "opened" /\ call'.op = "add" /\ ext'.err = "ok"
\* The directory blocks that hold another first record after the step.
ExtBlocksStarted ==
    {b \in ExtDirBlocks(ext') :
        /\ 0 \in DOMAIN ext'.blk[b].ents
        /\ \/ b \notin ExtDirBlocks(ext)
           \/ 0 \notin DOMAIN ext.blk[b].ents
           \/ ext'.blk[b].ents[0].inode # ext.blk[b].ents[0].inode
           \/ ext'.blk[b].ents[0].name # ext.blk[b].ents[0].name}
\* a record that the step put at the start of a block starts a block that the
\* step allocated
ExtPlaced ==
    ExtAddStep => \A b \in ExtBlocksStarted : b \in Range(ext'.allocs) \ Range(ext.allocs)
\* C29: in every ext2 directory block, following rec_len from offset 0 visits
\* records that lie inside the block (8 + name_len <= rec_len) and ends
\* exactly at the end of the block; an entry that does not fit in the free
\* tail of the last block of its directory goes to the start of a block newly
\* allocated to that directory.
C29_ExtDirChain == []ExtChainsOk /\ [][ExtPlaced]_vars
C29_ExtDirChainOnly == ExtChainsOk

\* LeanFS: the inodes of the volume, and the extents of an inode in use.
LenInodes(l) == DOMAIN l.inodes
LenExtentsUsed(ino) == 1..Min(ino.extent_count, LEAN_INODE_EXTENT_CNT)
LenExtentSum(ino) == SumOver(ino.extent_size, LenExtentsUsed(ino))
\* the extents of ino are pairwise disjoint, none continues the one before it
\* (a sector that directly follows the last extent extends it), and
\* sector_count is the sum of their lengths
LenExtentsOk(ino) ==
    /\ \A x, y \in LenExtentsUsed(ino) :
          x < y => \/ ino.extent_start[x] + ino.extent_size[x] <= ino.extent_start[y]
                   \/ ino.extent_start[y] + ino.extent_size[y] <= ino.extent_start[x]
    /\ \A x \in LenExtentsUsed(ino) :
          /\ ino.extent_size[x] >= 1
          /\ x > 1 => ino.extent_start[x - 1] + ino.extent_size[x - 1] # ino.extent_start[x]
    /\ ino.sector_count = LenExtentSum(ino)
\* the inodes that len_add_to_inode left with a counted sector that is in no
\* extent: the "too big" exit of lines 143-146
LenOverflowed(l) == {n \in LenInodes(l) : l.inodes[n].sector_count > LenExtentSum(l.inodes[n])}
\* C30: after any sequence of adds the extents of every LeanFS inode are
\* pairwise disjoint, a sector that directly follows the last extent has
\* extended it, sector_count is the sum of the extent lengths, and
\* len_add_to_inode ends with "too big" only when all 6 extent slots of the
\* inode are in use.
C30_LenExtents ==
    /\ fmt = "lean" /\ len.err = "ok" => \A n \in LenInodes(len) : LenExtentsOk(len.inodes[n])
    /\ fmt = "lean" /\ len.err = "toobig" =>
          \A n \in LenOverflowed(len) :
             \A x \in 1..LEAN_INODE_EXTENT_CNT : len.inodes[n].extent_size[x] >= 1
\* the extents alone, while no fatal error was raised
C30_LenExtentsKept ==
    fmt = "lean" /\ len.err = "ok" => \A n \in LenInodes(len) : LenExtentsOk(len.inodes[n])
\* an inode with two extents, one in each band
C30_TwoExtents ==
    fmt = "lean" /\ len.err = "ok" /\ \E n \in LenInodes(len) : len.inodes[n].extent_count = 2

\* echfs: the file entries of the directory written by close, the number of
\* blocks of entry i and the blocks that follow its payload block.
EchFiles == {i \in DOMAIN ech.dir : ech.dir[i].type = 0}
EchWithContent == {i \in EchFiles : ech.dir[i].size > 0}
EchBlocks(i) == CeilDiv(ech.dir[i].size, EchBlock)
EchBlocksOf(i) == ech.dir[i].payload..(ech.dir[i].payload + EchBlocks(i) - 1)
\* allocation-table entry x as written by close
EchTableAt(x) == IF x + 1 \in DOMAIN ech.table THEN ech.table[x + 1] ELSE 0
\* following the table from the payload block of entry i visits EchBlocks(i)
\* consecutive blocks and then the end-of-chain marker
EchChainOk(i) ==
    \A b \in EchBlocksOf(i) :
       EchTableAt(b) = IF b = ech.dir[i].payload + EchBlocks(i) - 1 THEN EchEnd ELSE b + 1
\* the blocks of entry i are blocks of the image and hold the bytes that
\* ech_add copied to ech_data for it
EchContentOk(i) ==
    /\ ech.dir[i].payload * EchBlock = ech.dataat + ech.ents[i].payload * EchBlock
    /\ ech.ents[i].payload * EchBlock + ech.dir[i].size <= ech.datalen
    /\ (ech.dir[i].payload + EchBlocks(i)) * EchBlock <= ech.len
EchImageOk ==
    /\ \A i \in EchWithContent : EchChainOk(i) /\ EchContentOk(i)
    /\ \A i, j \in EchWithContent : i # j => EchBlocksOf(i) \cap EchBlocksOf(j) = {}
    /\ \A x \in 0..(ech.offs - 1) : EchTableAt(x) = EchUsed
    /\ \A i \in EchFiles \ EchWithContent : ech.dir[i].payload = EchEnd
\* C31: in the echfs image written by close the allocation-table chain of
\* every file with content runs over ceil(size / 512) consecutive blocks to
\* the end-of-chain marker, those blocks hold the content, chains of different
\* files are disjoint, the blocks before the data area carry the reserved
\* marker and files without content have the end-of-chain value as payload.
C31_EchChains == EchClosed => EchImageOk
\* the same for the images whose data area ends inside the buffer
C31_EchChainsFitting ==
    (EchClosed /\ ech.dataat + ech.datalen <= ech.len) => EchImageOk
\* an image on a partition with the chains of two files with content
C31_TwoChains ==
    /\ EchClosed /\ nsec > 0 /\ ech.dataat + ech.datalen <= ech.len
    /\ \E i, j \in EchWithContent : i < j

\* FAT: the entries of the two copies that the image holds, the reserved
\* values of entries 0 and 1, and the clusters handed out so far.
FatCopy1(f, c) == FatEntry(f, c)
FatCopy2(f, c) ==
    IF c < FatPer(f) THEN FatIn(f, f.fat2, c)
    ELSE LET a == (f.resv + f.spf) * 512 + c * (IF f.fat16 THEN 2 ELSE 4)
             s == FatSlot(f, (a \div FatSlotSize) * FatSlotSize)
             x == a % FatSlotSize
         IN  IF f.fat16 THEN s[x + 1] + 256 * s[x + 2]
             ELSE FatInt32(s[x + 1], s[x + 2], s[x + 3], s[x + 4])
FatCopiesOk(f) ==
    /\ \A c \in 0..(f.nextcluster - 1) : FatCopy1(f, c) = FatCopy2(f, c)
    /\ FatCopy1(f, 0) = FatEoc(f) - 7 /\ FatCopy2(f, 0) = FatEoc(f) - 7
    /\ FatCopy1(f, 1) = FatEoc(f) /\ FatCopy2(f, 1) = FatEoc(f)
    /\ \A i \in DOMAIN f.allocs : FatCopy1(f, f.allocs[i]) # 0
\* C32: after open and after every add of the FAT builder the two FAT copies
\* are entry for entry identical, entries 0 and 1 keep their reserved values
\* and every cluster handed out has a non-zero FAT entry.
C32_FatCopies == (fmt = "fat" /\ phase = "opened") => FatCopiesOk(fat)
\* the same while no cluster from FatPer on was handed out
C32_FatCopiesLow ==
    (fmt = "fat" /\ phase = "opened" /\ fat.nextcluster <= FatPer(fat)) => FatCopiesOk(fat)
\* a directory and a file with content, each with clusters of its own
C32_ClustersOut ==
    fmt = "fat" /\ phase = "opened" /\ call.op = "add" /\ Len(fat.allocs) >= 3

\* FS/Z: a step that adds a regular file, and the number of sectors of its
\* content.
FszRegAdd == fmt = "fsz" /\ phase = "opened" /\ call'.op = "add" /\ call'.type = "reg"
FszSectorsOf(z) == CeilDiv(z, FSZ_SECSIZE)
\* the inode in sector n of f maps content of z bytes in the encoding of its
\* size
FszEncoded(f, n, z) ==
    With([in \in {FszSec(f, n)} |->
        /\ in.kind = "inode" /\ in.size = z
        /\ IF z <= FSZ_SECSIZE - FszInodeHead
           THEN in.flags = "inline" /\ in.inl = [t |-> "data", n |-> z] /\ in.sec = n
           ELSE IF z <= FSZ_SECSIZE
           THEN /\ in.flags = "direct" /\ in.numblocks = 1
                /\ With([c \in {FszSec(f, in.sec)} |-> c.kind = "content" /\ c.file = n])
           ELSE IF FszSectorsOf(z) <= 192
           THEN in.flags = "sd0" /\ in.inl.t = "sd" /\ Len(in.inl.ks) = FszSectorsOf(z)
           ELSE /\ in.flags = "sd1"
                /\ With([c \in {FszSec(f, in.sec)} |->
                       c.kind = "sd" /\ Len(c.ks) = FszSectorsOf(z)])])
\* C33: the FS/Z data mapping of a regular file follows from its size alone:
\* inline up to 3072 bytes, one direct sector up to 4096 bytes, a sector
\* directory in the inode for 2 to 192 sectors, one external sector directory
\* for 193 to 256 sectors, and the fatal error "too big" beyond 256 sectors.
C33_FszMapping ==
    [][FszRegAdd =>
          IF FszSectorsOf(call'.size) > 256 THEN fsz'.err = "toobig"
          ELSE /\ fsz'.err \in {"ok", "toobig"}
               /\ fsz'.err = "ok" => FszEncoded(fsz', fsz.len \div FSZ_SECSIZE, call'.size)]_vars
\* the same for the sizes that need no sector directory or more than 256 sectors
C33_FszMappingSmall ==
    [][(FszRegAdd /\ (call'.size <= FSZ_SECSIZE \/ FszSectorsOf(call'.size) > 256)) =>
          IF FszSectorsOf(call'.size) > 256 THEN fsz'.err = "toobig"
          ELSE /\ fsz'.err \in {"ok", "toobig"}
               /\ fsz'.err = "ok" => FszEncoded(fsz', fsz.len \div FSZ_SECSIZE, call'.size)]_vars
\* a first file of three sectors, mapped by a sector directory in its inode
C33_SdInline ==
    /\ fmt = "fsz" /\ phase = "opened" /\ call.op = "add" /\ call.size = 3 * FSZ_SECSIZE
    /\ FszEncoded(fsz, added[Len(added)].id, call.size)


(***************************************************************************)
(* The partitioning table (gpt.c) and the loop of the image writer over    *)
(* the partitions (img.c).                                                 *)
(***************************************************************************)
\* the number of user partitions of the configurations explored
MaxParts == 2
\* disk_align in bytes, from the "align" of the configuration in KiB (gpt.c
\* line 58)
GptAlign(a) == IF a >= 1 THEN a * 1024 ELSE 512
\* (x + disk_align - 1) & ~(disk_align - 1) for a disk_align that is a power
\* of two (gpt.c lines 60 and 103)
GptRound(x, align) == ((x + align - 1) \div align) * align
\* gpt_parts[np] of a partition with "size" mb MiB and an image file of ps
\* bytes (gpt.c lines 93-103)
gpt_part_size(mb, ps, align) ==
    With([size \in {mb * 1024 * 1024} |->
            GptRound(IF size > ps THEN size ELSE ps, align)])
\* total after the loop over the partitions (gpt.c line 104)
RECURSIVE SumSeq(_)
SumSeq(q) == IF q = <<>> THEN 0 ELSE q[1] + SumSeq(Tail(q))
\* l after the entries of the user partitions 1..k (gpt.c lines 166 and 202)
RECURSIVE GptL(_, _, _)
GptL(first, parts, k) ==
    IF k = 0 THEN first ELSE GptL(first, parts, k - 1) + parts[k] \div 512
\* Faulty variant of GptUserEntry: the entry of partition k starts at the
\* sector the previous entry ends at.
GptUserEntryOverlap(l, parts, k) ==
    [name |-> "part", k |-> k,
     start |-> GptL(l, parts, k - 1), last |-> GptL(l, parts, k)]
\* the entry of user partition k (gpt.c lines 198-204); the name of the
\* entry is the one of partitions.k of the configuration
GptUserEntry(l, parts, k) ==
    [name |-> "part", k |-> k,
     start |-> GptL(l, parts, k - 1) + 1, last |-> GptL(l, parts, k)]
\* (setint, gpt.c line 42, stores the low four bytes of an LBA: the LBAs of
\* the disks explored are below 2^31)
\* an entry of the table gpt_maketable has not written: all bytes zero
\* (gpt.c line 110)
GptNoEntry == [name |-> "none", k |-> 0, start |-> 0, last |-> 0]
\* gpt_maketable (gpt.c lines 58-62, 103-106 and 165-217) for the
\* configuration c: the sizes of the partitions, the size of the disk and
\* the entries of the table, first to last.
gpt_maketable(c) ==
    With([align \in {GptAlign(c.align)} |->
    With([e \in {IF align \div 512 > 128 THEN align \div 512 ELSE 128} |->
    With([ez \in {GptRound(c.esp_size, align) \div 512} |->
    With([parts \in {[k \in DOMAIN c.parts |->
                        gpt_part_size(c.parts[k].mb, c.parts[k].ps, align)]} |->
    With([total \in {(2 * e + ez) * 512 + SumSeq(parts)} |->
        [state |-> "table", cfg |-> c, es |-> e, esiz |-> ez, parts |-> parts,
         tsize |-> IF total > c.disk_size * 1024 * 1024 THEN total
                   ELSE c.disk_size * 1024 * 1024,
         table |-> <<[name |-> "esp", k |-> 0, start |-> e,
                      last |-> ez + e - 1]>>
                   \o (IF c.bbp.start # 0 /\ c.bbp.last # 0 /\ c.bbp.start <= c.bbp.last
                       THEN <<[name |-> "bbp", k |-> 0, start |-> c.bbp.start,
                               last |-> c.bbp.last]>>
                       ELSE <<>>)
                   \o [k \in DOMAIN parts |-> GptUserEntry(ez + e - 1, parts, k)],
         k |-> 0, pos |-> 0, handed |-> <<>>, placed |-> <<>>]])])])])])
\* (gpt_t*)(gpt + 1024 + k * 128): entry k of the table, counted from 0
\* (img.c line 99)
GptEntryAt(g, k) == IF k + 1 <= Len(g.table) THEN g.table[k + 1] ELSE GptNoEntry

\* The configurations explored: "align" in KiB, the size of the ESP in
\* bytes, "disksize" in MiB, the sectors of the payload of the RISC-V
\* platform within the ESP (esp.c lines 206-208; both 0 without that
\* platform) and the user partitions: a size in MiB, the size of the image
\* file (0 without one) and whether it is built from a directory.
GptAligns == {0, 1}
GptEspSizes == {64 * 512, 64 * 512 + 100}
GptDiskSizes == {0, 8}
GptBbps == {[start |-> 0, last |-> 0], [start |-> 40, last |-> 47]}
GptPartInputs ==
    {[mb |-> 1, ps |-> 0, dir |-> TRUE], [mb |-> 0, ps |-> 0, dir |-> TRUE],
     [mb |-> 0, ps |-> 700, dir |-> FALSE], [mb |-> 1, ps |-> 1024 * 1024 + 1, dir |-> FALSE]}
GptConfigs ==
    {[align |-> a, esp_size |-> z, disk_size |-> d, bbp |-> b, parts |-> ps] :
        a \in GptAligns, z \in GptEspSizes, d \in GptDiskSizes, b \in GptBbps,
        ps \in UNION {[1..n -> GptPartInputs] : n \in 1..MaxParts}}

\* gpt_maketable
GptMakeTable ==
    /\ gpt.state = "cfg"
    /\ gpt' = gpt_maketable(gpt.cfg)
    /\ UNCHANGED <<fmt, phase, err, nsec, fs_len, budget, added, call, ext, fat, len, mnx, arc,
                   fsz, ech, out, vfs>>
\* img_write up to the loop over the partitions (img.c lines 44-55): the
\* table and the ESP are written and the file position is set behind the ESP
ImgStart ==
    /\ gpt.state = "table"
    /\ gpt' = [gpt EXCEPT !.state = "writing", !.k = 1, !.pos = (gpt.es + gpt.esiz) * 512]
    /\ UNCHANGED <<fmt, phase, err, nsec, fs_len, budget, added, call, ext, fat, len, mnx, arc,
                   fsz, ech, out, vfs>>
\* one round of the loop for a partition copied from an image file (img.c
\* lines 56-80 and 126)
ImgFilePart ==
    /\ gpt.state = "writing" /\ gpt.k <= Len(gpt.parts)
    /\ ~gpt.cfg.parts[gpt.k].dir
    /\ gpt' = [gpt EXCEPT !.k = gpt.k + 1,
                          !.handed = Append(gpt.handed, GptNoEntry),
                          !.placed = Append(gpt.placed, gpt.pos),
                          !.pos = gpt.pos + gpt.cfg.parts[gpt.k].ps
                                  + (gpt.parts[gpt.k] - gpt.cfg.parts[gpt.k].ps)]
    /\ UNCHANGED <<fmt, phase, err, nsec, fs_len, budget, added, call, ext, fat, len, mnx, arc,
                   fsz, ech, out, vfs>>
\* One round of the loop for a partition built from a directory (img.c lines
\* 82-126): open is handed entry k of the table, and the buffer the builder
\* leaves is written at the file position. length is the length of that
\* buffer: nothing, one sector, or what the descriptor handed to open spans
\* and one sector more.
ImgDirPart ==
    /\ gpt.state = "writing" /\ gpt.k <= Len(gpt.parts)
    /\ gpt.cfg.parts[gpt.k].dir
    /\ LET e == GptEntryAt(gpt, gpt.k)
       IN \E length \in {0, 512, (e.last - e.start + 1) * 512, (e.last - e.start + 2) * 512} :
             /\ length >= 0
             /\ gpt' = IF length # 0 /\ gpt.parts[gpt.k] < length
                       THEN [gpt EXCEPT !.state = "fatal",
                                        !.handed = Append(gpt.handed, e)]
                       ELSE [gpt EXCEPT !.k = gpt.k + 1,
                                        !.handed = Append(gpt.handed, e),
                                        !.placed = Append(gpt.placed, gpt.pos),
                                        !.pos = gpt.pos + length + (gpt.parts[gpt.k] - length)]
    /\ UNCHANGED <<fmt, phase, err, nsec, fs_len, budget, added, call, ext, fat, len, mnx, arc,
                   fsz, ech, out, vfs>>
\* the backup table is written behind the partitions (img.c lines 128-132)
ImgBackup ==
    /\ gpt.state = "writing" /\ gpt.k > Len(gpt.parts)
    /\ gpt' = [gpt EXCEPT !.state = "done", !.pos = gpt.tsize]
    /\ UNCHANGED <<fmt, phase, err, nsec, fs_len, budget, added, call, ext, fat, len, mnx, arc,
                   fsz, ech, out, vfs>>

InitGpt ==
    /\ fmt = "none"
    /\ nsec = 0
    /\ phase = "img"
    /\ err = "ok"
    /\ fs_len = 0
    /\ budget = 0
    /\ added = <<>>
    /\ call = NoCall
    /\ ext = ExtIdle
    /\ fat = FatIdle
    /\ len = LenIdle
    /\ mnx = MnxIdle
    /\ arc = ArcIdle
    /\ fsz = FszIdle
    /\ ech = EchIdle
    /\ out = <<>>
    /\ gpt \in {[state |-> "cfg", cfg |-> c] : c \in GptConfigs}
    /\ vfs = VfsIdle
NextGpt == GptMakeTable \/ ImgStart \/ ImgFilePart \/ ImgDirPart \/ ImgBackup
SpecGpt == InitGpt /\ [][NextGpt]_vars

\* the image writer has handed the descriptor of partition k to a builder
GptOpened(k) ==
    /\ gpt.state \in {"writing", "done", "fatal"}
    /\ k \in DOMAIN gpt.handed
    /\ gpt.cfg.parts[k].dir
\* the descriptor handed for partition k is the entry written for it, spans
\* gpt_parts[k] / 512 sectors and starts where the partition is placed
GptOwnEntry(k) ==
    LET e == gpt.handed[k]
    IN /\ e.name = "part" /\ e.k = k
       /\ e = gpt.table[CHOOSE i \in DOMAIN gpt.table :
                           gpt.table[i].name = "part" /\ gpt.table[i].k = k]
       /\ e.last - e.start + 1 = gpt.parts[k] \div 512
       /\ k \in DOMAIN gpt.placed => e.start * 512 = gpt.placed[k]
\* the BIOS boot partition has an entry in the table
GptHasBbp == \E i \in DOMAIN gpt.table : gpt.table[i].name = "bbp"

\* C34: for each user partition k, the partition descriptor handed to the
\* builder's open is partition k's own GPT entry: its start and end LBA are
\* the ones written for partition k in the table, they span exactly
\* gpt_parts[k] / 512 sectors and they match the position at which the image
\* writer places the partition's buffer, with or without the entry of the
\* BIOS boot partition.
C34_OwnEntry == \A k \in 1..MaxParts : GptOpened(k) => GptOwnEntry(k)
\* the same for tables without the entry of the BIOS boot partition
C34_OwnEntryNoBbp ==
    \A k \in 1..MaxParts : (GptOpened(k) /\ ~GptHasBbp) => GptOwnEntry(k)
\* two partitions built from directories were written, the second behind a
\* first that has sectors
C34_TwoOpened ==
    /\ gpt.state = "done" /\ ~GptHasBbp
    /\ GptOpened(1) /\ GptOpened(2) /\ gpt.parts[1] > 0 /\ gpt.parts[2] > 0
    /\ GptOwnEntry(2)



(***************************************************************************)
(* The VFS server (src/userspace/vfs_server/vfs_server.c): the table of    *)
(* file descriptors and the service loop of main.                          *)
(***************************************************************************)
MAX_FDS == 256
FIRST_FD == 3
IPC_MSG_SIZE == 256
OFFSET_DATA == 56
SEEK_SET == 0
SEEK_CUR == 1
SEEK_END == 2
\* the number of requests served in one behaviour
MaxReqs == 3

\* A 64-bit field of a message (msg_get_u64, msg_set_u64): four digits of 16
\* bits, the most significant first. Long(x) is the field that holds the
\* integer x, negative x in two's complement.
Long(x) ==
    <<IF x < 0 THEN 65535 ELSE 0, IF x < 0 THEN 65535 ELSE 0,
      (x \div 65536) % 65536, x % 65536>>
LONG_MAX == <<32767, 65535, 65535, 65535>>
LONG_MIN == <<32768, 0, 0, 0>>
ULONG_MAX == <<65535, 65535, 65535, 65535>>
\* a + b in 64 bits
LongAdd(a, b) ==
    With([s4 \in {a[4] + b[4]} |->
    With([s3 \in {a[3] + b[3] + s4 \div 65536} |->
    With([s2 \in {a[2] + b[2] + s3 \div 65536} |->
        <<(a[1] + b[1] + s2 \div 65536) % 65536, s2 % 65536, s3 % 65536, s4 % 65536>>])])])
\* (long)a < 0
LongNeg(a) == a[1] >= 32768
\* a > b for unsigned long a and b
ULongGt(a, b) ==
    \E i \in 1..4 : a[i] > b[i] /\ \A j \in 1..(i - 1) : a[j] = b[j]
\* a > b for long a and b
LongGt(a, b) == IF LongNeg(a) # LongNeg(b) THEN LongNeg(b) ELSE ULongGt(a, b)
\* the integer a field below 2^31 holds
LongVal(a) == a[3] * 65536 + a[4]

\* "/dev/null" and "/dev/initrd/"
PathNull == <<47, 100, 101, 118, 47, 110, 117, 108, 108>>
MountInitrd == <<47, 100, 101, 118, 47, 105, 110, 105, 116, 114, 100, 47>>
\* "/etc/a": no mount point is a prefix of it
PathEtc == <<47, 101, 116, 99, 47, 97>>
\* the byte of a file at offset p of the initrd
VfsByte(p) == (7 * p + 3) % 251
\* a regular file of the initrd as the ustar builder lays it out: header,
\* content and padding; at is the offset of the header
VfsFile(name, size, at) ==
    TarHeader("reg", name, size)
        \o [i \in 1..ArcRound(size) |-> IF i <= size THEN VfsByte(at + 512 + i - 1) ELSE 0]
\* The initrd the server is started with: "a" of 300 bytes, "b" of 5 bytes and
\* the empty "d".
VfsInitrd ==
    VfsFile(NameA, 300, 0) \o VfsFile(NameB, 5, 1024) \o VfsFile(NameD, 0, 2048)
        \o [i \in 1..1024 |-> 0]

\* static int str_starts_with(const char *path, const char *prefix)
str_starts_with(path, prefix) ==
    /\ Len(path) >= Len(prefix)
    /\ \A i \in 1..Len(prefix) : path[i] = prefix[i]
\* vfs_resolve_mount with the one mount main makes (lines 277-305 and 523):
\* the path within the initrd, or no mount
vfs_resolve_mount(path) ==
    IF str_starts_with(path, MountInitrd)
    THEN [found |-> TRUE, relative_path |-> SubSeq(path, Len(MountInitrd) + 1, Len(path))]
    ELSE [found |-> FALSE, relative_path |-> <<>>]

\* an entry of fd_table after fd_table_init (lines 325-335); data 0 is the
\* null pointer, other values are offsets into the initrd
FdInit ==
    [in_use |-> 0, data |-> 0, size |-> 0, offset |-> 0, flags |-> 0, shmem_id |-> 0 - 1,
     is_special |-> 0]
\* the descriptors fd_alloc looks at
FdRange == FIRST_FD..(MAX_FDS - 1)
\* Faulty variant of fd_alloc: the highest free descriptor is taken.
fd_alloc_highest(t) ==
    IF \A i \in FdRange : t[i].in_use # 0 THEN [fd |-> 0 - 1, table |-> t]
    ELSE With([fd \in {CHOOSE i \in FdRange :
                          /\ t[i].in_use = 0
                          /\ \A j \in (i + 1)..(MAX_FDS - 1) : t[j].in_use # 0} |->
            [fd |-> fd, table |-> [t EXCEPT ![fd] = [FdInit EXCEPT !.in_use = 1]]]])
\* static int fd_alloc(void): the descriptor returned and the table left
fd_alloc(t) ==
    IF \A i \in FdRange : t[i].in_use # 0 THEN [fd |-> 0 - 1, table |-> t]
    ELSE With([fd \in {CHOOSE i \in FdRange :
                          /\ t[i].in_use = 0
                          /\ \A j \in FIRST_FD..(i - 1) : t[j].in_use # 0} |->
            [fd |-> fd, table |-> [t EXCEPT ![fd] = [FdInit EXCEPT !.in_use = 1]]]])
\* static int fd_is_valid(int fd)
fd_is_valid(t, fd) == fd >= FIRST_FD /\ fd < MAX_FDS /\ t[fd].in_use # 0
\* syscall_shmem_create: the kernel numbers the regions in the order of
\* their creation; regions lists the ones that exist
syscall_shmem_create(v) ==
    [v EXCEPT !.regions = Append(v.regions, v.next), !.next = v.next + 1]
\* syscall_shmem_destroy(id). destroyed lists the calls: the id, and whether
\* a descriptor in use held it when the call was made.
syscall_shmem_destroy(v, id) ==
    [v EXCEPT !.regions = SelectSeq(v.regions, LAMBDA x : x # id),
              !.destroyed = Append(v.destroyed,
                  [id |-> id,
                   owned |-> \E i \in FdRange :
                                v.fd_table[i].in_use # 0 /\ v.fd_table[i].shmem_id = id])]
\* static void fd_free(int fd)
fd_free(v, fd) ==
    IF fd >= FIRST_FD /\ fd < MAX_FDS
    THEN With([w \in {IF v.fd_table[fd].shmem_id >= 0
                      THEN syscall_shmem_destroy(v, v.fd_table[fd].shmem_id) ELSE v} |->
            [w EXCEPT !.fd_table[fd].in_use = 0, !.fd_table[fd].shmem_id = 0 - 1]])
    ELSE v

\* struct ipc_message response = request (line 581): the fields of the
\* response hold what the request held until the handler sets them
VfsResponse(r) ==
    [result |-> "none", fd |-> r.fd, offset |-> r.offset, count |-> r.count,
     shmem_id |-> 0, data |-> <<>>]
\* the end of a round of the service loop: the response is sent
VfsSend(v, r, resp) == [v EXCEPT !.req = r, !.reply = resp, !.left = v.left - 1]
VfsFail(v, r, e) == VfsSend(v, r, [VfsResponse(r) EXCEPT !.result = e])
VfsOpenFail(v, r, e) == VfsSend(v, r, [VfsResponse(r) EXCEPT !.result = e, !.fd = 0 - 1])

\* case VFS_OPEN (lines 584-744). env is what the kernel answers: "ok",
\* "nocreate" (syscall_shmem_create fails) or "nomap" (syscall_shmem_map
\* fails).
vfs_open(v, r, env) ==
    IF r.path = PathNull
    THEN With([a \in {fd_alloc(v.fd_table)} |->
            IF a.fd < 0 THEN VfsOpenFail(v, r, "VFS_ERR_NO_MEM")
            ELSE VfsSend([v EXCEPT !.fd_table =
                              [a.table EXCEPT ![a.fd].is_special = 1, ![a.fd].flags = r.flags]],
                         r, [VfsResponse(r) EXCEPT !.result = "VFS_SUCCESS", !.fd = a.fd,
                                                   !.shmem_id = 0 - 1])])
    ELSE With([m \in {vfs_resolve_mount(r.path)} |->
        IF ~m.found THEN VfsOpenFail(v, r, "VFS_ERR_NOT_FOUND")
        ELSE With([f \in {tar_find_file(VfsInitrd, m.relative_path)} |->
            IF ~f.found THEN VfsOpenFail(v, r, "VFS_ERR_NOT_FOUND")
            ELSE With([a \in {fd_alloc(v.fd_table)} |->
                IF a.fd < 0 THEN VfsOpenFail(v, r, "VFS_ERR_NO_MEM")
                ELSE With([w \in {[v EXCEPT !.fd_table = a.table]} |->
                    IF env = "nocreate"
                    THEN VfsOpenFail(fd_free(w, a.fd), r, "VFS_ERR_NO_MEM")
                    ELSE With([c \in {syscall_shmem_create(w)} |->
                        IF env = "nomap"
                        THEN VfsOpenFail(fd_free(syscall_shmem_destroy(c, w.next), a.fd), r,
                                         "VFS_ERR_NO_MEM")
                        ELSE VfsSend(
                                [c EXCEPT !.fd_table[a.fd] =
                                              [in_use |-> 1, data |-> f.data, size |-> f.size,
                                               offset |-> 0, flags |-> r.flags,
                                               shmem_id |-> w.next, is_special |-> 0],
                                          !.created = Append(c.created, w.next)],
                                r, [VfsResponse(r) EXCEPT !.result = "VFS_SUCCESS",
                                                          !.fd = a.fd,
                                                          !.shmem_id = w.next])])])])])])

\* Faulty variant of vfs_read: the bytes are not limited to what is left of
\* the file.
vfs_read_unclamped(v, r) ==
    IF ~fd_is_valid(v.fd_table, r.fd) THEN VfsFail(v, r, "VFS_ERR_BAD_FD")
    ELSE With([f \in {v.fd_table[r.fd]} |->
        With([to_read \in {IF ULongGt(r.count, Long(IPC_MSG_SIZE - OFFSET_DATA))
                           THEN IPC_MSG_SIZE - OFFSET_DATA ELSE LongVal(r.count)} |->
            VfsSend([v EXCEPT !.fd_table[r.fd].offset = f.offset + to_read], r,
                    [VfsResponse(r) EXCEPT !.result = "VFS_SUCCESS",
                                           !.count = Long(to_read)])])])
\* case VFS_READ (lines 746-800)
vfs_read(v, r) ==
    IF ~fd_is_valid(v.fd_table, r.fd) THEN VfsFail(v, r, "VFS_ERR_BAD_FD")
    ELSE With([f \in {v.fd_table[r.fd]} |->
        IF f.is_special # 0
        THEN VfsSend(v, r, [VfsResponse(r) EXCEPT !.result = "VFS_SUCCESS",
                                                  !.count = Long(0)])
        ELSE With([remaining \in {f.size - f.offset} |->
             With([clamped \in {IF ULongGt(r.count, Long(remaining)) THEN remaining
                                ELSE LongVal(r.count)} |->
             With([to_read \in {IF clamped > IPC_MSG_SIZE - OFFSET_DATA
                                THEN IPC_MSG_SIZE - OFFSET_DATA ELSE clamped} |->
                VfsSend([v EXCEPT !.fd_table[r.fd].offset = f.offset + to_read], r,
                        [VfsResponse(r) EXCEPT
                            !.result = "VFS_SUCCESS",
                            !.count = Long(to_read),
                            !.data = [i \in 1..to_read |->
                                         VfsInitrd[f.data + f.offset + i]]])])])])])
\* case VFS_WRITE (lines 802-830)
vfs_write(v, r) ==
    IF ~fd_is_valid(v.fd_table, r.fd) THEN VfsFail(v, r, "VFS_ERR_BAD_FD")
    ELSE IF v.fd_table[r.fd].is_special # 0
    THEN VfsSend(v, r, [VfsResponse(r) EXCEPT !.result = "VFS_SUCCESS"])
    ELSE VfsFail(v, r, "VFS_ERR_ACCESS")
\* case VFS_CLOSE (lines 832-858)
vfs_close(v, r) ==
    IF ~fd_is_valid(v.fd_table, r.fd) THEN VfsFail(v, r, "VFS_ERR_BAD_FD")
    ELSE With([w \in {IF v.fd_table[r.fd].shmem_id >= 0
                      THEN syscall_shmem_destroy(v, v.fd_table[r.fd].shmem_id) ELSE v} |->
            VfsSend(fd_free(w, r.fd), r, [VfsResponse(r) EXCEPT !.result = "VFS_SUCCESS"])])
\* Faulty variant of vfs_lseek: a position behind the end of the file is
\* accepted.
vfs_lseek_past(v, r) ==
    IF ~fd_is_valid(v.fd_table, r.fd) THEN VfsFail(v, r, "VFS_ERR_BAD_FD")
    ELSE IF r.flags \notin {SEEK_SET, SEEK_CUR, SEEK_END} THEN VfsFail(v, r, "VFS_ERR_INVALID")
    ELSE With([f \in {v.fd_table[r.fd]} |->
        With([new_offset \in {CASE r.flags = SEEK_SET -> r.offset
                                [] r.flags = SEEK_CUR -> LongAdd(Long(f.offset), r.offset)
                                [] OTHER -> LongAdd(Long(f.size), r.offset)} |->
            IF LongNeg(new_offset) \/ new_offset[1] # 0 \/ new_offset[2] # 0
               \/ new_offset[3] >= 32768
            THEN VfsFail(v, r, "VFS_ERR_INVALID")
            ELSE VfsSend([v EXCEPT !.fd_table[r.fd].offset = LongVal(new_offset)], r,
                         [VfsResponse(r) EXCEPT !.result = "VFS_SUCCESS",
                                                !.offset = new_offset])])])
\* case VFS_LSEEK (lines 860-909); the whence is read from the flags field
vfs_lseek(v, r) ==
    IF ~fd_is_valid(v.fd_table, r.fd) THEN VfsFail(v, r, "VFS_ERR_BAD_FD")
    ELSE IF r.flags \notin {SEEK_SET, SEEK_CUR, SEEK_END} THEN VfsFail(v, r, "VFS_ERR_INVALID")
    ELSE With([f \in {v.fd_table[r.fd]} |->
        With([new_offset \in {CASE r.flags = SEEK_SET -> r.offset
                                [] r.flags = SEEK_CUR -> LongAdd(Long(f.offset), r.offset)
                                [] OTHER -> LongAdd(Long(f.size), r.offset)} |->
            IF LongNeg(new_offset) \/ LongGt(new_offset, Long(f.size))
            THEN VfsFail(v, r, "VFS_ERR_INVALID")
            ELSE VfsSend([v EXCEPT !.fd_table[r.fd].offset = LongVal(new_offset)], r,
                         [VfsResponse(r) EXCEPT !.result = "VFS_SUCCESS",
                                                !.offset = new_offset])])])

\* The requests explored.
VfsFds == {0 - 1, 2, 3, 4, 255, 256}
VfsPaths == {PathNull, MountInitrd \o NameA, MountInitrd \o NameB, MountInitrd \o NameD,
             MountInitrd \o NameATxt, PathEtc}
VfsCounts == {Long(0), Long(5), Long(200), Long(201), ULONG_MAX}
VfsOffsets == {Long(0), Long(5), Long(0 - 1), Long(300), Long(301), LONG_MAX, LONG_MIN}
VfsWhence == {SEEK_SET, SEEK_CUR, SEEK_END, 3}
VfsRequest(type, fd, flags, offset, count, path) ==
    [type |-> type, fd |-> fd, flags |-> flags, offset |-> offset, count |-> count,
     path |-> path]

\* the server as main enters the service loop (lines 515-561), served by a
\* kernel that has made no region for it yet
VfsStarted ==
    [state |-> "run", fd_table |-> (0 :> FdInit) @@ [i \in 1..(MAX_FDS - 1) |-> FdInit], regions |-> <<>>,
     next |-> 0, created |-> <<>>, destroyed |-> <<>>,
     req |-> VfsRequest("none", 0, 0, Long(0), Long(0), <<>>),
     reply |-> VfsResponse(VfsRequest("none", 0, 0, Long(0), Long(0), <<>>)),
     left |-> 0]
\* the server v after n more clients have opened "d"
RECURSIVE VfsOpenedFrom(_, _)
VfsOpenedFrom(v, n) ==
    IF n = 0 THEN v
    ELSE IF n = 1
    THEN vfs_open(v, VfsRequest("VFS_OPEN", 0, 0, Long(0), Long(0), MountInitrd \o NameD),
                  "ok")
    ELSE With([w \in {VfsOpenedFrom(v, n \div 2)} |-> VfsOpenedFrom(w, n - n \div 2)])
VfsOpened(n) == VfsOpenedFrom(VfsStarted, n)
\* the numbers of descriptors open at the start of the behaviours explored
VfsFill == {0, 252}

VfsServing == vfs.state = "run" /\ vfs.left > 0
VfsRest ==
    UNCHANGED <<fmt, phase, err, nsec, fs_len, budget, added, call, ext, fat, len, mnx, arc,
                fsz, ech, out, gpt>>
VfsOpen ==
    /\ VfsServing
    /\ \E path \in VfsPaths, env \in {"ok", "nocreate", "nomap"} :
          vfs' = vfs_open(vfs, VfsRequest("VFS_OPEN", 0, 0, Long(0), Long(0), path), env)
    /\ VfsRest
VfsRead ==
    /\ VfsServing
    /\ \E fd \in VfsFds, count \in VfsCounts :
          vfs' = vfs_read(vfs, VfsRequest("VFS_READ", fd, 0, Long(0), count, <<>>))
    /\ VfsRest
VfsWrite ==
    /\ VfsServing
    /\ \E fd \in VfsFds :
          vfs' = vfs_write(vfs, VfsRequest("VFS_WRITE", fd, 0, Long(0), Long(5), <<>>))
    /\ VfsRest
VfsClose ==
    /\ VfsServing
    /\ \E fd \in VfsFds :
          vfs' = vfs_close(vfs, VfsRequest("VFS_CLOSE", fd, 0, Long(0), Long(0), <<>>))
    /\ VfsRest
VfsLseek ==
    /\ VfsServing
    /\ \E fd \in VfsFds, whence \in VfsWhence, offset \in VfsOffsets :
          vfs' = vfs_lseek(vfs, VfsRequest("VFS_LSEEK", fd, whence, offset, Long(0), <<>>))
    /\ VfsRest
\* the default case (lines 911-914): any other request type
VfsUnknown ==
    /\ VfsServing
    /\ vfs' = VfsFail(vfs, VfsRequest("VFS_STAT", 3, 0, Long(0), Long(0), <<>>),
                      "VFS_ERR_INVALID")
    /\ VfsRest

InitVfs ==
    /\ fmt = "none"
    /\ nsec = 0
    /\ phase = "img"
    /\ err = "ok"
    /\ fs_len = 0
    /\ budget = 0
    /\ added = <<>>
    /\ call = NoCall
    /\ ext = ExtIdle
    /\ fat = FatIdle
    /\ len = LenIdle
    /\ mnx = MnxIdle
    /\ arc = ArcIdle
    /\ fsz = FszIdle
    /\ ech = EchIdle
    /\ out = <<>>
    /\ gpt = GptIdle
    /\ \E n \in VfsFill : vfs = [VfsOpened(n) EXCEPT !.left = MaxReqs]
NextVfs == VfsOpen \/ VfsRead \/ VfsWrite \/ VfsClose \/ VfsLseek \/ VfsUnknown
SpecVfs == InitVfs /\ [][NextVfs]_vars



(***************************************************************************)
(* The descriptors and the shared-memory regions of the VFS server.        *)
(***************************************************************************)
\* the descriptors that are open in the table t
VfsOpenFds(t) == {i \in FdRange : t[i].in_use # 0}
\* the server has served the request vfs'.req in this step
VfsServed(type) == vfs.state = "run" /\ vfs'.left = vfs.left - 1 /\ vfs'.req.type = type
\* the number of calls of syscall_shmem_destroy with id
VfsDestroys(id) == Cardinality({j \in DOMAIN vfs.destroyed : vfs.destroyed[j].id = id})
\* a descriptor that is open holds the region id
VfsHeld(id) == \E i \in VfsOpenFds(vfs.fd_table) : vfs.fd_table[i].shmem_id = id

\* C35: for every shared-memory region created by a successful OPEN,
\* syscall_shmem_destroy is called exactly once with the id of the region, at
\* the CLOSE of its descriptor (never while the descriptor is open), and
\* destroy is never called with the id of such a region that no open
\* descriptor owns.
C35_DestroyOnce ==
    vfs.state = "run" =>
        /\ \A k \in DOMAIN vfs.created :
              VfsDestroys(vfs.created[k]) = IF VfsHeld(vfs.created[k]) THEN 0 ELSE 1
        /\ \A j \in DOMAIN vfs.destroyed :
              vfs.destroyed[j].id \in Range(vfs.created) => vfs.destroyed[j].owned
\* what the server does: the region of a descriptor is destroyed twice at
\* its CLOSE, both times while the descriptor holds it
C35_DestroyTwice ==
    vfs.state = "run" =>
        /\ \A k \in DOMAIN vfs.created :
              VfsDestroys(vfs.created[k]) = IF VfsHeld(vfs.created[k]) THEN 0 ELSE 2
        /\ \A j \in DOMAIN vfs.destroyed :
              vfs.destroyed[j].id \in Range(vfs.created) => vfs.destroyed[j].owned
\* a region was made by an OPEN and its descriptor was closed
C35_Closed ==
    /\ vfs.state = "run" /\ vfs.req.type = "VFS_CLOSE" /\ vfs.reply.result = "VFS_SUCCESS"
    /\ \E k \in DOMAIN vfs.created : ~VfsHeld(vfs.created[k])

\* a successful OPEN returns the lowest descriptor from FIRST_FD on that was
\* not open, and opens that one only
VfsOpenLowest ==
    (VfsServed("VFS_OPEN") /\ vfs'.reply.result = "VFS_SUCCESS") =>
        /\ vfs'.reply.fd \in FdRange \ VfsOpenFds(vfs.fd_table)
        /\ \A j \in FIRST_FD..(vfs'.reply.fd - 1) : j \in VfsOpenFds(vfs.fd_table)
        /\ VfsOpenFds(vfs'.fd_table) = VfsOpenFds(vfs.fd_table) \cup {vfs'.reply.fd}
\* READ, WRITE, LSEEK and CLOSE on a descriptor that is not open
VfsBadFd ==
    \A type \in {"VFS_READ", "VFS_WRITE", "VFS_LSEEK", "VFS_CLOSE"} :
        (VfsServed(type) /\ vfs'.req.fd \notin VfsOpenFds(vfs.fd_table)) =>
            /\ vfs'.reply.result = "VFS_ERR_BAD_FD"
            /\ vfs'.fd_table = vfs.fd_table
\* a failed OPEN leaves the descriptors that are open as they were
VfsOpenFailed ==
    (VfsServed("VFS_OPEN") /\ vfs'.reply.result # "VFS_SUCCESS") =>
        /\ VfsOpenFds(vfs'.fd_table) = VfsOpenFds(vfs.fd_table)
        /\ vfs'.reply.fd = 0 - 1
\* the path of the request is "/dev/null" or names a file of the initrd
VfsNamesFile(path) ==
    \/ path = PathNull
    \/ /\ vfs_resolve_mount(path).found
       /\ tar_find_file(VfsInitrd, vfs_resolve_mount(path).relative_path).found
\* all 253 descriptors are open
VfsFull(t) == VfsOpenFds(t) = FdRange /\ Cardinality(FdRange) = 253

\* C36: a successful OPEN returns the lowest-numbered descriptor >= 3 that is
\* not open, never one that is open; READ, WRITE, LSEEK and CLOSE on a
\* descriptor that is not open reply VFS_ERR_BAD_FD and change no descriptor;
\* a failed OPEN leaves no descriptor allocated, and OPEN replies
\* VFS_ERR_NO_MEM when all 253 descriptors are open.
C36_Descriptors ==
    [][/\ VfsOpenLowest
       /\ VfsBadFd
       /\ VfsOpenFailed
       /\ (VfsServed("VFS_OPEN") /\ VfsFull(vfs.fd_table))
              => vfs'.reply.result = "VFS_ERR_NO_MEM"]_vars
\* C36 as the server behaves: with all 253 descriptors open, an OPEN of
\* "/dev/null" or of a file of the initrd replies VFS_ERR_NO_MEM, an OPEN of
\* any other path VFS_ERR_NOT_FOUND as it does with descriptors left.
C36_DescriptorsFound ==
    [][/\ VfsOpenLowest
       /\ VfsBadFd
       /\ VfsOpenFailed
       /\ (VfsServed("VFS_OPEN") /\ VfsFull(vfs.fd_table))
              => vfs'.reply.result = IF VfsNamesFile(vfs'.req.path) THEN "VFS_ERR_NO_MEM"
                                     ELSE "VFS_ERR_NOT_FOUND"]_vars
\* the OPEN of a file of the initrd was refused with all 253 descriptors
\* open, after the last descriptor had been handed out
C36_TableFull ==
    /\ vfs.state = "run" /\ VfsFull(vfs.fd_table)
    /\ vfs.req.type = "VFS_OPEN" /\ vfs.req.path = MountInitrd \o NameA
    /\ vfs.reply.result = "VFS_ERR_NO_MEM"
    /\ vfs.fd_table[MAX_FDS - 1].size = 300

\* 0 <= offset <= size for every descriptor that is open
VfsOffsetsOk ==
    vfs.state = "run" =>
        \A i \in VfsOpenFds(vfs.fd_table) :
            0 <= vfs.fd_table[i].offset /\ vfs.fd_table[i].offset <= vfs.fd_table[i].size
\* the request of this step is for a regular file that is open
VfsOnFile(type) ==
    /\ VfsServed(type)
    /\ vfs'.req.fd \in VfsOpenFds(vfs.fd_table)
    /\ vfs.fd_table[vfs'.req.fd].is_special = 0
\* min(count, left, 200) for the count of a request
VfsReadLen(count, left) ==
    With([m \in {Min(left, 200)} |-> IF ULongGt(count, Long(m)) THEN m ELSE LongVal(count)])
\* a READ on a regular file
VfsReadOk ==
    VfsOnFile("VFS_READ") =>
        With([f \in {vfs.fd_table[vfs'.req.fd]} |->
        With([n \in {VfsReadLen(vfs'.req.count, f.size - f.offset)} |->
            /\ vfs'.reply.result = "VFS_SUCCESS"
            /\ vfs'.reply.count = Long(n)
            /\ vfs'.reply.data = [i \in 1..n |-> VfsByte(f.data + f.offset + i - 1)]
            /\ f.offset = f.size => n = 0
            /\ vfs'.fd_table = [vfs.fd_table EXCEPT ![vfs'.req.fd].offset = f.offset + n]])])
\* a WRITE to a regular file
VfsWriteOk ==
    VfsOnFile("VFS_WRITE") =>
        vfs'.reply.result = "VFS_ERR_ACCESS" /\ vfs'.fd_table = vfs.fd_table

\* C37: 0 <= offset <= size holds for every open descriptor after any
\* sequence of requests; a READ of count bytes on a regular file returns
\* n = min(count, size - offset, 200) bytes taken from file position offset
\* and advances the offset by exactly n (n = 0 at end of file), and a WRITE to
\* a regular file replies VFS_ERR_ACCESS without changing the offset.
C37_Offsets == []VfsOffsetsOk /\ [][VfsReadOk /\ VfsWriteOk]_vars
\* a second READ of a file of 300 bytes returned the 100 bytes left
C37_ReadToEnd ==
    /\ vfs.state = "run" /\ vfs.req.type = "VFS_READ" /\ vfs.reply.result = "VFS_SUCCESS"
    /\ vfs.req.count = Long(201) /\ vfs.reply.count = Long(100)
    /\ vfs.fd_table[vfs.req.fd].offset = 300 /\ vfs.fd_table[vfs.req.fd].size = 300

\* the position an LSEEK asks for, from the descriptor f before the step
VfsSeekBase(f, whence) ==
    CASE whence = SEEK_SET -> 0 [] whence = SEEK_CUR -> f.offset [] OTHER -> f.size
\* the positions in [0, size] the request r names on the descriptor f: the
\* base plus d for the d the offset field holds
VfsSeekTargets(f, r) ==
    IF r.flags \notin {SEEK_SET, SEEK_CUR, SEEK_END} THEN {}
    ELSE {VfsSeekBase(f, r.flags) + d :
             d \in {d \in (0 - VfsSeekBase(f, r.flags))..(f.size - VfsSeekBase(f, r.flags)) :
                       r.offset = Long(d)}}

\* C38: LSEEK sets the offset of the descriptor to the position computed from
\* whence (SET: off; CUR: offset + off; END: size + off) and returns it only
\* if that position lies in [0, size]; for an invalid whence or a position
\* outside [0, size] it replies VFS_ERR_INVALID and leaves the offset
\* unchanged.
C38_Lseek ==
    [][(VfsServed("VFS_LSEEK") /\ vfs'.req.fd \in VfsOpenFds(vfs.fd_table)) =>
          With([pos \in {VfsSeekTargets(vfs.fd_table[vfs'.req.fd], vfs'.req)} |->
              IF pos = {}
              THEN /\ vfs'.reply.result = "VFS_ERR_INVALID"
                   /\ vfs'.fd_table = vfs.fd_table
              ELSE /\ vfs'.reply.result = "VFS_SUCCESS"
                   /\ \A q \in pos :
                         /\ vfs'.reply.offset = Long(q)
                         /\ vfs'.fd_table =
                                [vfs.fd_table EXCEPT ![vfs'.req.fd].offset = q]])]_vars
\* an LSEEK by -1 from the current position 5 was served
C38_SeekBack ==
    /\ vfs.state = "run" /\ vfs.req.type = "VFS_LSEEK" /\ vfs.req.flags = SEEK_CUR
    /\ vfs.req.offset = Long(0 - 1)
    /\ vfs.reply.result = "VFS_SUCCESS" /\ vfs.reply.offset = Long(4)
    /\ vfs.fd_table[vfs.req.fd].offset = 4
\* an LSEEK by LONG_MAX from the current position 5 was refused
C38_SeekWrapped ==
    /\ vfs.state = "run" /\ vfs.req.type = "VFS_LSEEK" /\ vfs.req.flags = SEEK_CUR
    /\ vfs.req.offset = LONG_MAX
    /\ vfs.reply.result = "VFS_ERR_INVALID"
    /\ vfs.req.fd \in VfsOpenFds(vfs.fd_table) /\ vfs.fd_table[vfs.req.fd].offset = 5

====
